---- MODULE Spec2Model ----
(***************************************************************************)
(* A model of the configuration resolution engine of os-golib/go-config:   *)
(* sources and their priorities, the deep merge, Config.Load with hooks,   *)
(* observers and validation rules, profile activation, and the caching and *)
(* retry decorators.                                                       *)
(*                                                                         *)
(* Go maps are reference values.  A map[string]any held under a key of     *)
(* another map is modelled as a reference (an object id) into `heap`, so   *)
(* that the shallow cloneMap and the in-place deepMerge act on shared      *)
(* objects exactly as they do in the program.  Nested maps hold scalars    *)
(* only (two levels).                                                      *)
(***************************************************************************)
EXTENDS Integers, Sequences, FiniteSets, TLC

(***************************************************************************)
(* Bounds of the model.                                                    *)
(***************************************************************************)
MaxSources == 2
MaxLoads == 2
MaxObservers == 2
MaxClock == 4
MaxTTL == 2
MaxInnerCalls == 4
MaxAttemptsBound == 3
MaxRetryLoads == 2
MaxWatches == 1
MaxModTime == 2

(***************************************************************************)
(* Values.  A scalar is its dynamic type and its fmt.Sprint text; a nested *)
(* map is a reference to an object of the heap.                            *)
(***************************************************************************)
IntV(p) == [t |-> "int", p |-> p]
StrV(p) == [t |-> "str", p |-> p]
MapV(o) == [t |-> "map", p |-> o]
IsMap(v) == v.t = "map"

ObjIds == {"o1", "o2"}
EmptyMap == [k \in {} |-> IntV("0")]

Put(m, k, v) == [x \in (DOMAIN m) \cup {k} |-> IF x = k THEN v ELSE m[x]]

\* The nested maps the callers hand to Memory sources and profiles.
HeapInit == [o \in ObjIds |->
               IF o = "o1" THEN [k \in {"x", "y"} |-> IntV("1")]
               ELSE [k \in {"x"} |-> IntV("2")]]

(***************************************************************************)
(* source.go: cloneMap copies the top level only; a nested map of the      *)
(* copy is the nested map of the original.                                 *)
(***************************************************************************)
cloneMap(m) == [k \in DOMAIN m |-> m[k]]

(***************************************************************************)
(* builder.go: deepMerge(dst, src).  dst is the accumulator (a fresh map), *)
(* h the heap.  Where both sides hold a nested map the call recurses and   *)
(* writes INTO the nested map dst already refers to; otherwise the value   *)
(* (for a nested map: the reference) is stored under the key.              *)
(***************************************************************************)
\* a variant that stores the source's value under every key
storeEveryKey(dst, src, h, ks) ==
  [m |-> [k \in (DOMAIN dst) \cup ks |-> IF k \in ks THEN src[k] ELSE dst[k]], h |-> h]

RECURSIVE deepMergeKeys(_, _, _, _)
deepMergeKeys(dst, src, h, ks) ==
  IF ks = {} THEN [m |-> dst, h |-> h]
  ELSE LET k == CHOOSE x \in ks : TRUE
           v == src[k]
       IN IF k \in DOMAIN dst /\ IsMap(dst[k]) /\ IsMap(v)
          THEN LET r == deepMergeKeys(h[dst[k].p], h[v.p], h, DOMAIN h[v.p])
               IN deepMergeKeys(dst, src, [r.h EXCEPT ![dst[k].p] = r.m], ks \ {k})
          ELSE deepMergeKeys(Put(dst, k, v), src, h, ks \ {k})

deepMerge(dst, src, h) == deepMergeKeys(dst, src, h, DOMAIN src)

(***************************************************************************)
(* builder.go: deepEqual compares the fmt.Sprint texts.  Sprint of a map   *)
(* prints its entries in key order, so two maps print alike exactly when   *)
(* they hold the same keys with the same texts.                            *)
(***************************************************************************)
Sprint(v, h) ==
  IF IsMap(v)
  THEN [map |-> TRUE, text |-> "", ents |-> [k \in DOMAIN h[v.p] |-> h[v.p][k].p]]
  ELSE [map |-> FALSE, text |-> v.p, ents |-> [k \in {} |-> ""]]

deepEqual(a, b, h) == Sprint(a, h) = Sprint(b, h)

\* builder.go: detectChanges(old, updated)
\* a variant that reports every key of the new state as changed
reportEveryKey(old, updated, h) == updated

detectChanges(old, updated, h) ==
  LET ch == {k \in DOMAIN updated : k \notin DOMAIN old \/ ~deepEqual(old[k], updated[k], h)}
  IN [k \in ch |-> updated[k]]

(***************************************************************************)
(* builder.go: sortSources, the insertion sort of c.sources by priority.   *)
(* The same loop sorts the hooks (sortHooks).                              *)
(***************************************************************************)
\* a variant of the inner loop that also moves cur below a source of its own
\* priority
RECURSIVE shiftBelowEqual(_, _, _)
shiftBelowEqual(s, j, cur) ==
  IF j >= 1 /\ s[j].priority >= cur.priority
  THEN shiftBelowEqual([s EXCEPT ![j + 1] = s[j]], j - 1, cur)
  ELSE [s EXCEPT ![j + 1] = cur]

RECURSIVE shiftDown(_, _, _)
shiftDown(s, j, cur) ==
  IF j >= 1 /\ s[j].priority > cur.priority
  THEN shiftDown([s EXCEPT ![j + 1] = s[j]], j - 1, cur)
  ELSE [s EXCEPT ![j + 1] = cur]

RECURSIVE sortFrom(_, _)
sortFrom(s, i) == IF i > Len(s) THEN s ELSE sortFrom(shiftDown(s, i - 1, s[i]), i + 1)

\* a variant that leaves the sources in the order of registration
keepRegistrationOrder(s) == s

sortSources(s) == sortFrom(s, 2)

\* a variant of sortHooks that leaves the hooks as they were appended
appendOnly(s) == s

sortHooks(s) == sortFrom(s, 2)


(***************************************************************************)
(* State.                                                                  *)
(***************************************************************************)
VARIABLES
  sources,    \* Config.sources: the registered sources, in merge order
  data,       \* Config.data: the merged state
  heap,       \* the nested map objects the sources and the merged state refer to
  files,      \* the file system the File sources read
  hooks,      \* Config.hooks: HookManager.preLoad and .postLoad
  rules,      \* Config.validationRules
  observers,  \* Config.observers
  pending,    \* the observer goroutines started and not yet run
  profiles,   \* ProfileManager.profiles
  active,     \* ProfileManager.active
  last,       \* the last engine operation: what it returned and what it did
  loads,      \* the number of Load calls so far
  adds,       \* the number of sources registered so far
  \* a CachedSource and the inner source it wraps
  inner,      \* the inner source: what its successful Load returns
  innerN,     \* the number of Load calls the inner source has served
  ttl,        \* CachedSource.ttl
  cache,      \* CachedSource.cache
  cachedAt,   \* CachedSource.cachedAt
  now,        \* the clock
  okAt,       \* when the inner source last loaded successfully (-1: never)
  cres,       \* what the last CachedSource.Load returned
  \* a RetrySource, the inner source it wraps and the Load in progress
  maxAttempts, \* RetrySource.maxAttempts
  backoff,    \* RetrySource.backoff
  rpc,        \* where the Load in progress stands
  attempt,    \* the loop variable of Load
  lastErr,    \* the lastErr of Load
  calls,      \* the inner Loads of this Load, each with what it returned
  slept,      \* the durations this Load has slept
  rcalls,     \* the number of Load calls the inner source has served
  rloads,     \* the number of RetrySource.Load calls so far
  rres,       \* what the last RetrySource.Load returned
  \* the watch loops
  ctxDone,    \* Config.ctx is cancelled
  loops,      \* the watchLoop goroutines: position, paths and modTimes
  mtime,      \* the modification time of each file
  \* the caller of the read operations
  got,        \* what the last Get*, ValidateKey or ValidateAll returned
  \* the goroutines that call the engine concurrently
  mu,         \* Config.mu: the goroutine holding it exclusively, and those sharing it
  gpc,        \* where each goroutine stands in the operation it runs
  \* the Builders
  builders    \* each Builder: whether it exists, its middleware, the Builder it was cloned from

engineVars == <<sources, data, heap, files, hooks, rules, observers, pending,
                profiles, active, last, loads, adds>>

cacheVars == <<inner, innerN, ttl, cache, cachedAt, now, okAt, cres>>

retryVars == <<maxAttempts, backoff, rpc, attempt, lastErr, calls, slept, rcalls, rloads, rres>>

watchVars == <<ctxDone, loops, mtime>>

lockVars == <<mu, gpc>>
builderVars == <<builders>>

(***************************************************************************)
(* source.go: the sources.  A name is the sequence of its segments, the    *)
(* prefixes first ("file:" then the path; "memory").  `ord` and `via`      *)
(* record when and by which operation the engine registered the source     *)
(* (they are no fields of the program's Source).                           *)
(***************************************************************************)
DefaultMemoryPriority == 0
DefaultFilePriority == 10
DefaultEnvPriority == 20
ProfilePriority == 1000

MemoryWithPriority(d, p) ==
  [kind |-> "memory", name |-> <<"memory">>, priority |-> p, data |-> cloneMap(d),
   path |-> "", ord |-> 0, via |-> ""]

FileWithPriority(path, p) ==
  [kind |-> "file", name |-> <<"file:", path>>, priority |-> p, data |-> EmptyMap,
   path |-> path, ord |-> 0, via |-> ""]

Paths == {"f1"}

\* source.go: joinKeys, joinList, flatten and flattenToDot.  In a decoded
\* document a nested map is the record of its entries and a list the record
\* of its items; any other value is a scalar.
joinKeys(a, b) == IF a = "" THEN b ELSE a \o "." \o b

DocV(ents) == [t |-> "doc", p |-> "", ents |-> ents]
ListV(items) == [t |-> "list", p |-> "", items |-> items]

\* strings.Join
RECURSIVE Join(_, _)
Join(ss, sep) ==
  IF ss = <<>> THEN ""
  ELSE IF Len(ss) = 1 THEN ss[1]
  ELSE ss[1] \o sep \o Join(Tail(ss), sep)

\* the keys a document uses, in the sorted order in which fmt prints a map
KeyOrder == <<"h", "k", "x", "y">>

\* fmt.Sprint of a decoded value
RECURSIVE SprintAny(_)
SprintAny(v) ==
  IF v.t = "list"
  THEN "[" \o Join([i \in 1..Len(v.items) |-> SprintAny(v.items[i])], " ") \o "]"
  ELSE IF v.t = "doc"
  THEN LET ks == SelectSeq(KeyOrder, LAMBDA k : k \in DOMAIN v.ents)
       IN "map[" \o Join([i \in 1..Len(ks) |-> ks[i] \o ":" \o SprintAny(v.ents[ks[i]])], " ") \o "]"
  ELSE v.p

\* a variant that joins the elements with a space
joinWithSpaces(v) == Join([i \in 1..Len(v) |-> SprintAny(v[i])], " ")

joinList(v) == Join([i \in 1..Len(v) |-> SprintAny(v[i])], ",")

\* fmt.Sprintf("%s.%d", prefix, i), i counted from 0
indexKey(prefix, i) == prefix \o "." \o ToString(i)

RECURSIVE flatten(_, _, _)
RECURSIVE flattenMap(_, _, _, _)
RECURSIVE flattenList(_, _, _, _)

\* case map[string]any: for k, val := range x
flattenMap(prefix, x, ks, out) ==
  IF ks = {} THEN out
  ELSE LET k == CHOOSE c \in ks : TRUE
       IN flattenMap(prefix, x, ks \ {k}, flatten(joinKeys(prefix, k), x[k], out))

\* case []any: for i, val := range x, from the i-th item on
flattenList(prefix, x, i, out) ==
  IF i > Len(x) THEN out
  ELSE flattenList(prefix, x, i + 1, flatten(indexKey(prefix, i - 1), x[i], out))

flatten(prefix, v, out) ==
  IF v.t = "doc" THEN flattenMap(prefix, v.ents, DOMAIN v.ents, out)
  ELSE IF v.t = "list"
  THEN Put(flattenList(prefix, v.items, 1, out), prefix, StrV(joinList(v.items)))
  ELSE Put(out, prefix, v)

flattenToDot(tree) == flatten("", DocV(tree), EmptyMap)

\* source.go: MemorySource.Load and FileSource.Load
SourceLoad(src, fs) ==
  IF src.kind = "memory" THEN [err |-> "", data |-> cloneMap(src.data)]
  ELSE IF ~fs[src.path].ok THEN [err |-> "read file", data |-> EmptyMap]
  ELSE [err |-> "", data |-> flattenToDot(fs[src.path].tree)]

(***************************************************************************)
(* The hooks (hook system).  A hook is its kind, name and priority; the    *)
(* defaults hook carries its defaults.  `bad` names the user callbacks     *)
(* that return an error in this call.                                      *)
(***************************************************************************)
NewLoggingHook == [kind |-> "logging", name |-> "logging", priority |-> 1000, defaults |-> EmptyMap]
NewValidationHook == [kind |-> "validation", name |-> "validation", priority |-> 50, defaults |-> EmptyMap]
NewDefaultsHook(d) == [kind |-> "defaults", name |-> "defaults", priority |-> 10, defaults |-> d]
\* a user's hook implementing PreLoadHook
NewGuardHook(p) == [kind |-> "guard", name |-> "guard", priority |-> p, defaults |-> EmptyMap]

\* a user's PreLoadHook whose OnPreLoad reads the engine: c.Get(key)
NewReadingHook(p) == [kind |-> "reader", name |-> "reader", priority |-> p, defaults |-> EmptyMap]

IsPreLoadHook(h) == h.kind \in {"logging", "guard", "reader"}
IsPostLoadHook(h) == h.kind \in {"logging", "validation", "defaults"}

\* HookManager.Register
Register(hm, h) ==
  [preLoad |-> IF IsPreLoadHook(h) THEN sortHooks(Append(hm.preLoad, h)) ELSE hm.preLoad,
   postLoad |-> IF IsPostLoadHook(h) THEN sortHooks(Append(hm.postLoad, h)) ELSE hm.postLoad]

OnPreLoad(h, bad) == IF h.kind = "guard" /\ h.name \in bad THEN "guard failed" ELSE ""

\* LoggingHook, ValidationHook and DefaultsHook .OnPostLoad
OnPostLoad(h, m, bad) ==
  IF h.kind = "validation" THEN [err |-> IF h.name \in bad THEN "invalid" ELSE "", m |-> m]
  ELSE IF h.kind = "defaults"
  THEN [err |-> "", m |-> [k \in (DOMAIN m) \cup (DOMAIN h.defaults) |->
                             IF k \in DOMAIN m THEN m[k] ELSE h.defaults[k]]]
  ELSE [err |-> "", m |-> m]

RECURSIVE ExecutePreLoadFrom(_, _, _)
ExecutePreLoadFrom(hs, i, bad) ==
  IF i > Len(hs) THEN ""
  ELSE IF OnPreLoad(hs[i], bad) # "" THEN "pre-load hook " \o hs[i].name
  ELSE ExecutePreLoadFrom(hs, i + 1, bad)

ExecutePreLoad(hm, bad) == ExecutePreLoadFrom(hm.preLoad, 1, bad)

RECURSIVE ExecutePostLoadFrom(_, _, _, _)
ExecutePostLoadFrom(hs, i, m, bad) ==
  IF i > Len(hs) THEN [err |-> "", m |-> m]
  ELSE LET r == OnPostLoad(hs[i], m, bad)
       IN IF r.err # "" THEN [err |-> "post-load hook " \o hs[i].name, m |-> r.m]
          ELSE ExecutePostLoadFrom(hs, i + 1, r.m, bad)

ExecutePostLoad(hm, m, bad) == ExecutePostLoadFrom(hm.postLoad, 1, m, bad)


(***************************************************************************)
(* Per-key validation rules.  A rule is the sequence of the constraints of *)
(* its tag string ("required", "min=2").  validateValue builds the struct  *)
(* tag with fmt.Sprintf(`validate:"%q"`, rule): %q wraps the rule in       *)
(* quotes of its own, and the validator reads the tag with StructTag.Get,  *)
(* which takes the text up to the next quote.                              *)
(***************************************************************************)
Quote == "\""

formatTag(rule) == <<"validate", ":", Quote>> \o (<<Quote>> \o rule \o <<Quote>>) \o <<Quote>>

RECURSIVE upToQuote(_, _)
upToQuote(s, i) ==
  IF i > Len(s) \/ s[i] = Quote THEN <<>> ELSE <<s[i]>> \o upToQuote(s, i + 1)

\* reflect.StructTag.Get("validate"): the quoted value that follows `validate:`
tagGet(tag) == upToQuote(tag, 4)

\* the validator library on one value: the constraints the value violates
Violates(v, c) ==
  \/ c = "min=2" /\ v.t = "int" /\ v.p = "1"
  \/ c = "required" /\ v.p = ""

validateValue(value, rule) ==
  LET cs == tagGet(formatTag(rule))
  IN IF \E i \in 1..Len(cs) : Violates(value, cs[i]) THEN "validation failed" ELSE ""

\* a variant of strings.Contains(rule, "required") that finds nothing
neverRequired(rule) == FALSE

\* strings.Contains(rule, "required")
ContainsRequired(rule) == \E i \in 1..Len(rule) : rule[i] = "required"

\* Config.ValidateAll: the keys in error (ValidationErrors.Errors)
ValidateAll(rs, d) ==
  {key \in DOMAIN rs :
     IF key \notin DOMAIN d THEN ContainsRequired(rs[key])
     ELSE validateValue(d[key], rs[key]) # ""}

(***************************************************************************)
(* builder.go: Config.notifyObservers starts one goroutine per observer on *)
(* a clone of `changed`.  `mid` is the identity of the map the goroutine   *)
(* holds: 0 is the map Load computed, i > 0 the i-th clone made of it.     *)
(***************************************************************************)
\* a variant that hands the map Load computed to every goroutine
notifyWithSharedMap(obs, changed, n) ==
  [i \in 1..Len(obs) |->
     [obs |-> obs[i], load |-> n, mid |-> 0, changed |-> changed, done |-> FALSE]]

notifyObservers(obs, changed, n) ==
  [i \in 1..Len(obs) |->
     [obs |-> obs[i], load |-> n, mid |-> i, changed |-> cloneMap(changed), done |-> FALSE]]

(***************************************************************************)
(* builder.go: Config.Load.  The merge loop, then the whole call.          *)
(***************************************************************************)
\* a merge loop that stops after the first source
RECURSIVE firstSourceOnly(_, _, _, _, _)
firstSourceOnly(srcs, i, merged, h, fs) ==
  IF i > Len(srcs) \/ i > 1 THEN [err |-> "", m |-> merged, h |-> h]
  ELSE LET r == SourceLoad(srcs[i], fs)
       IN IF r.err # "" THEN [err |-> r.err, m |-> merged, h |-> h]
          ELSE LET d == deepMerge(merged, r.data, h)
               IN firstSourceOnly(srcs, i + 1, d.m, d.h, fs)

RECURSIVE mergeFrom(_, _, _, _, _)
mergeFrom(srcs, i, merged, h, fs) ==
  IF i > Len(srcs) THEN [err |-> "", m |-> merged, h |-> h]
  ELSE LET r == SourceLoad(srcs[i], fs)
       IN IF r.err # "" THEN [err |-> r.err, m |-> merged, h |-> h]
          ELSE LET d == deepMerge(merged, r.data, h)
               IN mergeFrom(srcs, i + 1, d.m, d.h, fs)

Outcome(err, d, h, changed, spawned, committed) ==
  [err |-> err, data |-> d, heap |-> h, changed |-> changed, spawned |-> spawned,
   committed |-> committed]

\* a Load that merges the sources into the state it finds
keepCurrent(current) == current

\* Load: merged := make(map[string]any)
newMerged(current) == EmptyMap

LoadOutcome(srcs, bad) ==
  LET pre == ExecutePreLoad(hooks, bad)
      mg == mergeFrom(srcs, 1, newMerged(data), heap, files)
      post == ExecutePostLoad(hooks, mg.m, bad)
      changed == detectChanges(data, post.m, mg.h)
      spawned == IF DOMAIN changed # {} THEN notifyObservers(observers, changed, loads + 1)
                 ELSE <<>>
      invalid == IF DOMAIN rules # {} THEN ValidateAll(rules, post.m) ELSE {}
  IN IF pre # "" THEN Outcome("pre-load hook", data, heap, EmptyMap, <<>>, FALSE)
     ELSE IF mg.err # "" THEN Outcome("source", data, mg.h, EmptyMap, <<>>, FALSE)
     ELSE IF post.err # "" THEN Outcome("post-load hook", data, mg.h, EmptyMap, <<>>, FALSE)
     ELSE Outcome(IF invalid # {} THEN "validation failed" ELSE "",
                  post.m, mg.h, changed, spawned, TRUE)

\* what an operation leaves in `last`
Ret(op, err) ==
  [op |-> op, err |-> err, changed |-> EmptyMap, spawned |-> <<>>, committed |-> FALSE]

\* the user callbacks a Load can see fail: the hooks that are registered
Fallible ==
  {hooks.preLoad[i].name : i \in {j \in 1..Len(hooks.preLoad) : hooks.preLoad[j].kind = "guard"}}
  \cup {hooks.postLoad[i].name : i \in {j \in 1..Len(hooks.postLoad) : hooks.postLoad[j].kind = "validation"}}

Load ==
  /\ loads < MaxLoads
  /\ \E bad \in SUBSET Fallible :
       LET r == LoadOutcome(sources, bad)
       IN /\ data' = r.data
          /\ heap' = r.heap
          /\ pending' = pending \o r.spawned
          /\ last' = [op |-> "Load", err |-> r.err, changed |-> r.changed,
                      spawned |-> r.spawned, committed |-> r.committed]
  /\ loads' = loads + 1
  /\ UNCHANGED <<sources, files, hooks, rules, observers, profiles, active, adds>>
  /\ UNCHANGED <<cacheVars, retryVars, watchVars, got, lockVars, builderVars>>

\* builder.go: Config.AddSource
AddSource(src) ==
  /\ adds < MaxSources
  /\ sources' = sortSources(Append(sources, [src EXCEPT !.ord = adds + 1, !.via = "AddSource"]))
  /\ adds' = adds + 1
  /\ last' = Ret("AddSource", "")
  /\ UNCHANGED <<data, heap, files, hooks, rules, observers, pending, profiles, active, loads>>
  /\ UNCHANGED <<cacheVars, retryVars, watchVars, got, lockVars, builderVars>>

\* builder.go: filtered copy of RemoveSource
RECURSIVE filterName(_, _)
filterName(s, name) ==
  IF s = <<>> THEN <<>>
  ELSE IF Head(s).name # name THEN <<Head(s)>> \o filterName(Tail(s), name)
  ELSE filterName(Tail(s), name)

RemoveSource(name) ==
  /\ sources' = filterName(sources, name)
  /\ last' = Ret("RemoveSource", "")
  /\ UNCHANGED <<data, heap, files, hooks, rules, observers, pending, profiles, active, loads, adds>>
  /\ UNCHANGED <<cacheVars, retryVars, watchVars, got, lockVars, builderVars>>

\* builder.go: Config.Set
Set(key, value) ==
  /\ data' = Put(data, key, value)
  /\ last' = Ret("Set", "")
  /\ UNCHANGED <<sources, heap, files, hooks, rules, observers, pending, profiles, active, loads, adds>>
  /\ UNCHANGED <<cacheVars, retryVars, watchVars, got, lockVars, builderVars>>

\* builder.go: Config.Observe
Observe ==
  /\ Len(observers) < MaxObservers
  /\ observers' = Append(observers, Len(observers) + 1)
  /\ last' = Ret("Observe", "")
  /\ UNCHANGED <<sources, data, heap, files, hooks, rules, pending, profiles, active, loads, adds>>
  /\ UNCHANGED <<cacheVars, retryVars, watchVars, got, lockVars, builderVars>>

\* one observer goroutine runs its callback and ends
ObserverRun ==
  /\ \E i \in 1..Len(pending) :
       pending' = SubSeq(pending, 1, i - 1) \o SubSeq(pending, i + 1, Len(pending))
  /\ UNCHANGED <<sources, data, heap, files, hooks, rules, observers, profiles, active, last, loads, adds>>
  /\ UNCHANGED <<cacheVars, retryVars, watchVars, got, lockVars, builderVars>>

\* the file system changes under a File source.  Modification times are
\* read by the watch loops only, and only compared with one another: they
\* are counted from the first Watch.
FileWrite(path, st) ==
  /\ files[path] # st
  /\ loops # <<>> => mtime[path] < MaxModTime
  /\ files' = [files EXCEPT ![path] = st]
  /\ mtime' = IF loops = <<>> THEN mtime ELSE [mtime EXCEPT ![path] = mtime[path] + 1]
  /\ last' = Ret("FileWrite", "")
  /\ UNCHANGED <<sources, data, heap, hooks, rules, observers, pending, profiles, active, loads, adds>>
  /\ UNCHANGED <<cacheVars, retryVars, ctxDone, loops, got, lockVars, builderVars>>


(***************************************************************************)
(* The profile manager.                                                    *)
(***************************************************************************)
\* ProfileManager.AddProfile
AddProfileTo(ps, name, d) == Put(ps, name, cloneMap(d))

\* strings.HasPrefix(src.Name(), "profile:")
HasProfilePrefix(name) == name # <<>> /\ name[1] = "profile:"

RECURSIVE withoutProfile(_)
withoutProfile(s) ==
  IF s = <<>> THEN <<>>
  ELSE IF ~HasProfilePrefix(Head(s).name) THEN <<Head(s)>> \o withoutProfile(Tail(s))
  ELSE withoutProfile(Tail(s))

\* ProfileManager.applyProfile: the source list it leaves in the engine
applyProfileSources(srcs, name, n) ==
  LET source == [MemoryWithPriority(profiles[name], ProfilePriority)
                   EXCEPT !.ord = n, !.via = name]
  IN sortSources(Append(withoutProfile(srcs), source))

\* ProfileManager.SetActiveProfile, with the applyProfile and the Load it calls
SetActiveProfile(name) ==
  /\ loads < MaxLoads
  /\ IF name \notin DOMAIN profiles
     THEN /\ last' = Ret("SetActiveProfile", "profile does not exist")
          /\ UNCHANGED <<sources, data, heap, pending, active, loads, adds>>
     ELSE /\ active' = name
          /\ sources' = applyProfileSources(sources, name, adds + 1)
          /\ adds' = adds + 1
          /\ loads' = loads + 1
          /\ \E bad \in SUBSET Fallible :
               LET r == LoadOutcome(sources', bad)
               IN /\ data' = r.data
                  /\ heap' = r.heap
                  /\ pending' = pending \o r.spawned
                  /\ last' = [op |-> "SetActiveProfile", err |-> r.err, changed |-> r.changed,
                              spawned |-> r.spawned, committed |-> r.committed]
  /\ UNCHANGED <<files, hooks, rules, observers, profiles>>
  /\ UNCHANGED <<cacheVars, retryVars, watchVars, got, lockVars, builderVars>>

(***************************************************************************)
(* part_003: the decorators.  A map a Load returns is nil or a map; an     *)
(* error is the sequence of its parts, <<>> for nil.  The k-th Load of an  *)
(* inner source fails with a cause of its own or returns what the source   *)
(* holds: a counter source the count k, a Memory source built from a nil   *)
(* map the nil map.                                                        *)
(***************************************************************************)
NilMap == [nil |-> TRUE, m |-> EmptyMap]
MapOf(m) == [nil |-> FALSE, m |-> m]

\* source.go: cloneMap on a map that may be nil
cloneMapOrNil(x) == IF x.nil THEN NilMap ELSE MapOf(cloneMap(x.m))

InnerKinds == {"counter", "nil"}
Outcomes == {"ok", "fail"}

\* the k-th Load of the inner source
InnerLoad(kind, k, out) ==
  IF out = "fail" THEN [err |-> <<"inner", k>>, data |-> NilMap]
  ELSE IF kind = "nil" THEN [err |-> <<>>, data |-> NilMap]
  ELSE [err |-> <<>>, data |-> MapOf([n \in {"n"} |-> IntV(ToString(k))])]

NewCachedSource(source, t) ==
  /\ inner = source
  /\ innerN = 0
  /\ ttl = t
  /\ cache = NilMap
  /\ cachedAt = 0
  /\ now = 0
  /\ okAt = -1
  /\ cres = [err |-> <<>>, data |-> NilMap, called |-> FALSE]

\* CachedSource.Load: the test of the stored result
cacheFresh(c, at, clock, t) == ~c.nil /\ clock - at < t

\* a variant that stamps the cache on a failed inner Load too
stampAlways(c, at, clock, r) ==
  IF r.err # <<>> THEN [cache |-> c, cachedAt |-> clock, err |-> r.err, data |-> NilMap]
  ELSE [cache |-> cloneMapOrNil(r.data), cachedAt |-> clock, err |-> <<>>, data |-> r.data]

\* CachedSource.Load after the inner Load has returned r at time clock
storeResult(c, at, clock, r) ==
  IF r.err # <<>> THEN [cache |-> c, cachedAt |-> at, err |-> r.err, data |-> NilMap]
  ELSE [cache |-> cloneMapOrNil(r.data), cachedAt |-> clock, err |-> <<>>, data |-> r.data]

CachedSourceLoad ==
  /\ IF cacheFresh(cache, cachedAt, now, ttl)
     THEN /\ cres' = [err |-> <<>>, data |-> cloneMapOrNil(cache), called |-> FALSE]
          /\ UNCHANGED <<innerN, cache, cachedAt, okAt>>
     ELSE /\ innerN < MaxInnerCalls
          /\ \E out \in Outcomes :
               LET r == InnerLoad(inner, innerN + 1, out)
                   st == storeResult(cache, cachedAt, now, r)
               IN /\ innerN' = innerN + 1
                  /\ cache' = st.cache
                  /\ cachedAt' = st.cachedAt
                  /\ okAt' = IF r.err = <<>> THEN now ELSE okAt
                  /\ cres' = [err |-> st.err, data |-> st.data, called |-> TRUE]
  /\ UNCHANGED <<inner, ttl, now>>
  /\ UNCHANGED <<engineVars, retryVars, watchVars, got, lockVars, builderVars>>

\* time passes
Tick ==
  /\ now < MaxClock
  /\ now' = now + 1
  /\ UNCHANGED <<inner, innerN, ttl, cache, cachedAt, okAt, cres>>
  /\ UNCHANGED <<engineVars, retryVars, watchVars, got, lockVars, builderVars>>

NewRetrySource(n, b) ==
  /\ maxAttempts = n
  /\ backoff = b
  /\ rpc = "idle"
  /\ attempt = 0
  /\ lastErr = <<>>
  /\ calls = <<>>
  /\ slept = <<>>
  /\ rcalls = 0
  /\ rloads = 0
  /\ rres = [err |-> <<>>, data |-> NilMap]

\* a variant of the loop condition that allows one more turn
oneMoreTurn(a, n) == a <= n

\* RetrySource.Load: the condition of the for loop
loopCondition(a, n) == a < n

\* RetrySource.Load: the condition of the sleep
sleepCondition(a, n) == a < n - 1

\* fmt.Errorf("failed after %d attempts: %w", maxAttempts, lastErr)
retryError(n, cause) == <<"failed after", n, "attempts">> \o cause

\* RetrySource.Load is called: var lastErr error; attempt := 0
RetryLoadCall ==
  /\ rpc = "idle"
  /\ rloads < MaxRetryLoads
  /\ rloads' = rloads + 1
  /\ rpc' = "loop"
  /\ attempt' = 0
  /\ lastErr' = <<>>
  /\ calls' = <<>>
  /\ slept' = <<>>
  /\ UNCHANGED <<maxAttempts, backoff, rcalls, rres>>
  /\ UNCHANGED <<engineVars, cacheVars, watchVars, got, lockVars, builderVars>>

\* one turn of the loop, up to its sleep
RetryAttempt ==
  /\ rpc = "loop"
  /\ loopCondition(attempt, maxAttempts)
  /\ \E out \in Outcomes :
       LET r == InnerLoad("counter", rcalls + 1, out)
       IN /\ rcalls' = rcalls + 1
          /\ calls' = Append(calls, r)
          /\ IF r.err = <<>>
             THEN /\ rres' = [err |-> <<>>, data |-> r.data]
                  /\ rpc' = "idle"
                  /\ UNCHANGED <<lastErr, attempt>>
             ELSE /\ lastErr' = r.err
                  /\ IF sleepCondition(attempt, maxAttempts)
                     THEN rpc' = "sleep" /\ UNCHANGED attempt
                     ELSE rpc' = "loop" /\ attempt' = attempt + 1
                  /\ UNCHANGED rres
  /\ UNCHANGED <<maxAttempts, backoff, slept, rloads>>
  /\ UNCHANGED <<engineVars, cacheVars, watchVars, got, lockVars, builderVars>>

\* time.Sleep(backoff * (attempt+1)) ends; attempt++
RetrySleep ==
  /\ rpc = "sleep"
  /\ slept' = Append(slept, backoff * (attempt + 1))
  /\ attempt' = attempt + 1
  /\ rpc' = "loop"
  /\ UNCHANGED <<maxAttempts, backoff, lastErr, calls, rcalls, rloads, rres>>
  /\ UNCHANGED <<engineVars, cacheVars, watchVars, got, lockVars, builderVars>>

\* the loop ends without a result
RetryExhausted ==
  /\ rpc = "loop"
  /\ ~loopCondition(attempt, maxAttempts)
  /\ rres' = [err |-> retryError(maxAttempts, lastErr), data |-> NilMap]
  /\ rpc' = "idle"
  /\ UNCHANGED <<maxAttempts, backoff, attempt, lastErr, calls, slept, rcalls, rloads>>
  /\ UNCHANGED <<engineVars, cacheVars, watchVars, got, lockVars, builderVars>>

(***************************************************************************)
(* builder.go: Watch, Close and the watch loop.  A file that does not      *)
(* exist is the record Gone; os.Stat fails on it and on no other.  A loop  *)
(* is where it stands ("start": before its first os.Stat; "select": at the *)
(* select of its for loop; "done": returned), its paths and its modTimes.  *)
(***************************************************************************)
Gone == [ok |-> FALSE, tree |-> EmptyMap, gone |-> TRUE]

\* os.Stat(path) returns no error
Stat(fs, path) == "gone" \notin DOMAIN fs[path]

\* BaseSource.WatchPaths: the paths the constructor passed; a decorator's
\* WatchPaths returns s.source.WatchPaths()
RECURSIVE WatchPaths(_)
WatchPaths(src) ==
  IF "source" \in DOMAIN src THEN WatchPaths(src.source)
  ELSE IF src.kind = "file" THEN <<src.path>> ELSE <<>>

\* a variant that asks the first source only
firstSourcePaths(srcs, i) == IF i > Len(srcs) THEN <<>> ELSE WatchPaths(srcs[i])

\* Config.collectWatchPaths, from the i-th source on
RECURSIVE collectWatchPaths(_, _)
collectWatchPaths(srcs, i) ==
  IF i > Len(srcs) THEN <<>> ELSE WatchPaths(srcs[i]) \o collectWatchPaths(srcs, i + 1)

\* Config.Watch
Watch ==
  /\ Len(loops) < MaxWatches
  /\ LET paths == collectWatchPaths(sources, 1)
     IN IF Len(paths) = 0
        THEN /\ last' = Ret("Watch", "no watchable sources configured")
             /\ UNCHANGED loops
        ELSE /\ last' = Ret("Watch", "")
             /\ loops' = Append(loops, [pc |-> "start", paths |-> paths,
                                        modTimes |-> [q \in {} |-> 0]])
  /\ UNCHANGED <<sources, data, heap, files, hooks, rules, observers, pending, profiles,
                 active, loads, adds>>
  /\ UNCHANGED <<cacheVars, retryVars, ctxDone, mtime, got, lockVars, builderVars>>

\* Config.Close: c.cancel()
Close ==
  /\ ctxDone' = TRUE
  /\ last' = Ret("Close", "")
  /\ UNCHANGED <<sources, data, heap, files, hooks, rules, observers, pending, profiles,
                 active, loads, adds>>
  /\ UNCHANGED <<cacheVars, retryVars, loops, mtime, got, lockVars, builderVars>>

\* watchLoop up to its for loop: the snapshot of the paths os.Stat finds
WatchLoopStart ==
  /\ \E i \in 1..Len(loops) :
       /\ loops[i].pc = "start"
       /\ loops' = [loops EXCEPT ![i] =
            [pc |-> "select", paths |-> loops[i].paths,
             modTimes |-> [q \in {loops[i].paths[j] : j \in {x \in 1..Len(loops[i].paths) :
                                                    Stat(files, loops[i].paths[x])}}
                             |-> mtime[q]]]]
  /\ UNCHANGED <<engineVars, cacheVars, retryVars, ctxDone, mtime, got, lockVars, builderVars>>

\* Config.hasChanges: the paths at which it can return true
changedPaths(modTimes, fs, mt) ==
  {q \in DOMAIN modTimes : Stat(fs, q) /\ mt[q] > modTimes[q]}

\* a variant of the case <-c.ctx.Done() that is never ready
neverDone(done) == FALSE

\* watchLoop: case <-c.ctx.Done() is ready
selectDone(done) == done

\* watchLoop: case <-c.ctx.Done(): return
WatchLoopExit ==
  /\ \E i \in 1..Len(loops) :
       /\ loops[i].pc = "select"
       /\ selectDone(ctxDone)
       /\ loops' = [loops EXCEPT ![i].pc = "done"]
  /\ UNCHANGED <<engineVars, cacheVars, retryVars, ctxDone, mtime, got, lockVars, builderVars>>

\* watchLoop: case <-ticker.C, with the hasChanges and the Load it calls.
\* hasChanges ranges over a map: it stops at any one of the changed paths.
WatchLoopTick ==
  /\ \E i \in 1..Len(loops) :
       /\ loops[i].pc = "select"
       /\ LET ch == changedPaths(loops[i].modTimes, files, mtime)
          IN IF ch = {}
             THEN /\ last' = Ret("Tick", "")
                  /\ UNCHANGED <<data, heap, pending, loads, loops>>
             ELSE /\ \E q \in ch :
                       loops' = [loops EXCEPT ![i].modTimes[q] = mtime[q]]
                  /\ \E bad \in SUBSET Fallible :
                       LET r == LoadOutcome(sources, bad)
                       IN /\ data' = r.data
                          /\ heap' = r.heap
                          /\ pending' = pending \o r.spawned
                          /\ last' = [op |-> "Reload", err |-> r.err, changed |-> r.changed,
                                      spawned |-> r.spawned, committed |-> r.committed]
                  /\ loads' = loads + 1
  /\ UNCHANGED <<sources, files, hooks, rules, observers, profiles, active, adds>>
  /\ UNCHANGED <<cacheVars, retryVars, ctxDone, mtime, got, lockVars, builderVars>>

(***************************************************************************)
(* The inputs of the model: the sources a caller registers, the states of  *)
(* the watched file, the hooks and rules a Builder registered before       *)
(* Build.                                                                   *)
(***************************************************************************)
Flat1 == [k \in {"a", "b"} |-> IntV("1")]
Flat2 == [k \in {"a"} |-> IntV("2")]
Nest1 == [k \in {"a"} |-> MapV("o1")]
Nest2 == [k \in {"a"} |-> MapV("o2")]

SourceChoices ==
  {MemoryWithPriority(Flat1, DefaultFilePriority),
   MemoryWithPriority(Flat2, DefaultEnvPriority),
   MemoryWithPriority(Nest1, DefaultFilePriority),
   MemoryWithPriority(Nest2, DefaultEnvPriority),
   FileWithPriority("f1", DefaultFilePriority)}

FileStates ==
  {[ok |-> FALSE, tree |-> EmptyMap],
   [ok |-> TRUE, tree |-> [k \in {"a", "b"} |-> StrV("2")]]}

NewHookManager == [preLoad |-> <<>>, postLoad |-> <<>>]

Setups ==
  LET none == [k \in {} |-> <<>>]
      some == [k \in {"a", "b"} |-> IF k = "b" THEN <<"required">> ELSE <<"min=2">>]
      allHooks ==
        Register(Register(Register(Register(NewHookManager, NewLoggingHook), NewValidationHook),
                          NewDefaultsHook([k \in {"c"} |-> IntV("7")])), NewGuardHook(5))
  IN {[hooks |-> NewHookManager, rules |-> none],
      [hooks |-> NewHookManager, rules |-> some],
      [hooks |-> allHooks, rules |-> some]}

\* builder.go: New, then what a Builder registers before Build
InitWith(setups, obs, profs) ==
  /\ sources = <<>>
  /\ data = EmptyMap
  /\ heap = HeapInit
  /\ files \in [Paths -> FileStates]
  /\ \E su \in setups : hooks = su.hooks /\ rules = su.rules
  /\ observers = obs
  /\ pending = <<>>
  /\ profiles = profs
  /\ active = ""
  /\ last = Ret("New", "")
  /\ loads = 0
  /\ adds = 0

\* builder.go: NewBuilder, the Builder that made the engine; the other
\* Builders come to be by Clone.  `from` and `at` record the Builder a clone
\* was made from and how many sources had been registered by then (they are
\* no fields of the program's Builder).
BuilderIds == {"b0", "b1", "b2"}
NoBuilder == [made |-> FALSE, middleware |-> <<>>, from |-> "", at |-> 0]
NewBuilder == [made |-> TRUE, middleware |-> <<>>, from |-> "", at |-> 0]

\* the goroutines of the callers, and a goroutine that runs no operation
Goroutines == {"g1", "g2"}
Idle == [pc |-> "idle", key |-> "", rule |-> <<>>, err |-> "", from |-> ""]

NoResult == [op |-> "", key |-> "", text |-> "", int |-> 0, bool |-> FALSE, err |-> "", errors |-> {}]

\* no watch loop, the context of New, the files as they were written first,
\* and no read operation called yet
NoWatch ==
  /\ ctxDone = FALSE
  /\ loops = <<>>
  /\ mtime = [p \in DOMAIN files |-> 0]
  /\ got = NoResult
  /\ mu = [writer |-> "", readers |-> {}]
  /\ gpc = [g \in Goroutines |-> Idle]
  /\ builders = [b \in BuilderIds |-> IF b = "b0" THEN NewBuilder ELSE NoBuilder]

\* an engine, and decorators that no one calls
EngineWith(setups, obs, profs) ==
  /\ InitWith(setups, obs, profs)
  /\ NoWatch
  /\ NewCachedSource("counter", 0)
  /\ NewRetrySource(0, 0)

NoHooks == [hooks |-> NewHookManager, rules |-> [k \in {} |-> <<>>]]

vars == <<engineVars, cacheVars, retryVars, watchVars, got, lockVars, builderVars>>

(***************************************************************************)
(* Spec: one caller registers sources and loads, the file changes, values  *)
(* are Set; one observer is registered.                                    *)
(***************************************************************************)
Init == EngineWith(Setups, <<1>>, [k \in {} |-> EmptyMap])

Next ==
  \/ \E src \in SourceChoices : AddSource(src)
  \/ Load
  \/ Set("b", StrV("s"))
  \/ \E path \in Paths, st \in FileStates : FileWrite(path, st)

Spec == Init /\ [][Next]_vars


(***************************************************************************)
(* What the claims speak of.                                               *)
(***************************************************************************)
\* the value a Get of key k returns, a nested map by its entries
Content(v, h) == IF IsMap(v) THEN [map |-> TRUE, scalar |-> IntV(""), ents |-> h[v.p]]
                 ELSE [map |-> FALSE, scalar |-> v, ents |-> EmptyMap]

\* the registered sources whose Load output defines key k
Defining(k) == {i \in 1..Len(sources) : k \in DOMAIN SourceLoad(sources[i], files).data}

\* among them the one of highest priority, the last registered of these
Winner(k) ==
  CHOOSE i \in Defining(k) :
    \A j \in Defining(k) :
      \/ sources[j].priority < sources[i].priority
      \/ sources[j].priority = sources[i].priority /\ sources[j].ord <= sources[i].ord

Supplied(i, k) == SourceLoad(sources[i], files).data[k]

AllKeys == {"a", "b", "c"}

LoadSucceeded == last.op = "Load" /\ last.err = ""

View == [k \in DOMAIN data |-> Content(data[k], heap)]

LoadStep == loads' = loads + 1 /\ last'.op = "Load"

AbortErrors == {"pre-load hook", "source", "post-load hook"}

\* C2: a Load in which a pre-load hook, a source or a post-load hook fails
\* returns an error, leaves the merged state exactly as it was and notifies
\* no observer.
C2_FailedLoadChangesNothing ==
  [][(LoadStep /\ last'.err \in AbortErrors) =>
       (View' = View /\ pending' = pending /\ last'.spawned = <<>>)]_vars

\* the part of C2 that the code keeps: no state replacement (the top level
\* of the merged state is the one before) and no observer goroutine
C2_FailedLoadKeepsTopLevel ==
  [][(LoadStep /\ last'.err \in AbortErrors) =>
       (data' = data /\ pending' = pending /\ last'.spawned = <<>>)]_vars

\* the diff of two views, as detectChanges defines it
RefDiff(old, new, h) ==
  {k \in DOMAIN new : k \notin DOMAIN old \/ Sprint(old[k], h) # Sprint(new[k], h)}

\* a key whose registered rule the state d violates, by the meaning of the
\* constraints
Broken(k, d) ==
  IF k \notin DOMAIN d THEN ContainsRequired(rules[k])
  ELSE \E i \in 1..Len(rules[k]) : Violates(d[k], rules[k][i])

\* C3: a Load that gets past the hooks and the sources, with rules
\* registered and the freshly merged state violating one of them, returns a
\* validation error, has committed the new merged state and has started the
\* observers on the diff.
C3_ViolationReportedAndCommitted ==
  [][(LoadStep /\ last'.err \notin AbortErrors /\ \E k \in DOMAIN rules : Broken(k, data')) =>
       /\ last'.err = "validation failed"
       /\ last'.committed
       /\ DOMAIN last'.changed = RefDiff(data, data', heap')
       /\ pending' = pending \o last'.spawned]_vars

\* the part of C3 that the code keeps: a Load that returns a validation
\* error has committed the new merged state (it holds every key the sources
\* define, the winner's leaves first) and has started the observers on the
\* diff.
C3_ValidationFailureStaysCommitted ==
  [][(LoadStep /\ last'.err = "validation failed") =>
       /\ last'.committed
       /\ \A k \in AllKeys :
            Defining(k) # {} =>
              /\ k \in DOMAIN data'
              /\ LET w == Supplied(Winner(k), k)
                 IN IF IsMap(w) THEN IsMap(data'[k]) ELSE data'[k] = w
       /\ DOMAIN last'.changed = RefDiff(data, data', heap')
       /\ (DOMAIN last'.changed # {} =>
             /\ Len(last'.spawned) = Len(observers)
             /\ \A i \in 1..Len(observers) : last'.spawned[i].changed = last'.changed)
       /\ pending' = pending \o last'.spawned]_vars

\* a Load returned a validation error, the state holds the new values and
\* the observer was started on the diff
C3_Witness ==
  /\ last.op = "Load"
  /\ last.err = "validation failed"
  /\ "a" \in DOMAIN data
  /\ "a" \in DOMAIN last.changed
  /\ Len(last.spawned) = 1

\* C5: a Load that directly follows a committed Load (no other operation in
\* between) finds an empty diff, leaves the merged state as it is and starts
\* no observer.
C5_SecondLoadEmptyDiff ==
  [][(LoadStep /\ last.op = "Load" /\ last.committed) =>
       /\ DOMAIN last'.changed = {}
       /\ last'.spawned = <<>>
       /\ pending' = pending
       /\ View' = View]_vars

\* two committed Loads in a row over two sources, the second with no diff
C5_Witness ==
  /\ last.op = "Load"
  /\ last.committed
  /\ loads = 2
  /\ Len(sources) = 2
  /\ DOMAIN data # {}
  /\ DOMAIN last.changed = {}


(***************************************************************************)
(* SpecObs: observers are registered while sources are added and loaded,   *)
(* and the observer goroutines run when the scheduler lets them.           *)
(***************************************************************************)
ObsSourceChoices ==
  {MemoryWithPriority(Flat1, DefaultFilePriority),
   MemoryWithPriority(Flat2, DefaultEnvPriority),
   MemoryWithPriority(Nest1, DefaultFilePriority)}

InitObs == EngineWith({NoHooks}, <<>>, [k \in {} |-> EmptyMap])

NextObs ==
  \/ \E src \in ObsSourceChoices : AddSource(src)
  \/ Load
  \/ Observe
  \/ ObserverRun

SpecObs == InitObs /\ [][NextObs]_vars

ProfileP == [k \in {"a", "b"} |-> StrV("P")]
ProfileQ == [k \in {"a"} |-> StrV("Q")]
Top1 == [k \in {"a"} |-> IntV("9")]

ProfileSourceChoices ==
  {MemoryWithPriority(Flat2, DefaultEnvPriority),
   MemoryWithPriority(Top1, ProfilePriority + 1),
   FileWithPriority("f1", DefaultFilePriority)}

InitProfile ==
  EngineWith({NoHooks}, <<1>>,
           AddProfileTo(AddProfileTo([k \in {} |-> EmptyMap], "P", ProfileP), "Q", ProfileQ))

NextProfile ==
  \/ \E src \in ProfileSourceChoices : AddSource(src)
  \/ \E name \in {"P", "Q", "X"} : SetActiveProfile(name)
  \/ Load
  \/ \E path \in Paths, st \in FileStates : FileWrite(path, st)

SpecProfile == InitProfile /\ [][NextProfile]_vars

\* the sources registered by AddSource that define key k
OthersDefining(k) == {i \in Defining(k) : sources[i].via = "AddSource"}

\* C6: after a switch from profile P to profile Q, a key that P defines, Q
\* does not define and no other registered source defines is absent from
\* the merged state.
C6_SwitchRemovesOldProfileKeys ==
  [][(last'.op = "SetActiveProfile" /\ last'.err = "" /\ loads' = loads + 1
        /\ active # "" /\ active' # active) =>
       \A k \in DOMAIN profiles[active] :
         (k \notin DOMAIN profiles[active'] /\ OthersDefining(k)' = {}) => k \notin DOMAIN data']_vars

\* C7: after SetActiveProfile(P) succeeds, every key of P holds P's value in
\* the merged state, whatever the priorities of the other sources.
C7_ProfileValuesWin ==
  (last.op = "SetActiveProfile" /\ last.err = "") =>
     \A k \in DOMAIN profiles[active] :
       k \in DOMAIN data /\ data[k] = profiles[active][k]


(***************************************************************************)
(* SpecCache: a CachedSource over a counter source or over a Memory source *)
(* built from a nil map; Loads and the clock interleave.                   *)
(***************************************************************************)
InitCache ==
  /\ InitWith({NoHooks}, <<>>, [k \in {} |-> EmptyMap])
  /\ NoWatch
  /\ \E source \in InnerKinds, t \in 0..MaxTTL : NewCachedSource(source, t)
  /\ NewRetrySource(0, 0)

NextCache ==
  \/ CachedSourceLoad
  \/ Tick

SpecCache == InitCache /\ [][NextCache]_vars

\* C8: a Load calls the inner source exactly when no inner load has
\* succeeded yet or the last successful inner load is at least the TTL ago;
\* a Load within the TTL returns a copy of the stored result.
C8_InnerCalledOnlyWhenStale ==
  [][CachedSourceLoad =>
       /\ (innerN' = innerN + 1) <=> (okAt = -1 \/ now - okAt >= ttl)
       /\ (okAt # -1 /\ now - okAt < ttl) => (innerN' = innerN /\ cres'.data = cache)]_vars

\* the same, for inner sources whose successful Load returns a map
C8_NonNilResultsAreCached ==
  [][(CachedSourceLoad /\ inner = "counter") =>
       /\ (innerN' = innerN + 1) <=> (okAt = -1 \/ now - okAt >= ttl)
       /\ (okAt # -1 /\ now - okAt < ttl) => (innerN' = innerN /\ cres'.data = cache)]_vars

\* C9: a Load whose inner Load fails returns the inner error and leaves
\* the stored value and the timestamp as they were.
C9_FailedLoadKeepsCache ==
  [][(CachedSourceLoad /\ cres'.err # <<>>) =>
       /\ cres'.err = <<"inner", innerN'>>
       /\ innerN' = innerN + 1
       /\ cache' = cache
       /\ cachedAt' = cachedAt]_vars

\* a result was stored, its TTL ran out, and the next Load failed
C9_Witness ==
  /\ cres.err # <<>>
  /\ ~cache.nil
  /\ ttl > 0
  /\ now - cachedAt >= ttl
  /\ cres.called

(***************************************************************************)
(* SpecRetry: a RetrySource over a source whose Loads fail or succeed.     *)
(***************************************************************************)
Backoffs == {1, 2}

InitRetry ==
  /\ InitWith({NoHooks}, <<>>, [k \in {} |-> EmptyMap])
  /\ NoWatch
  /\ NewCachedSource("counter", 0)
  /\ \E n \in 0..MaxAttemptsBound, b \in Backoffs : NewRetrySource(n, b)

NextRetry ==
  \/ RetryLoadCall
  \/ RetryAttempt
  \/ RetrySleep
  \/ RetryExhausted

SpecRetry == InitRetry /\ [][NextRetry]_vars

Returned == rpc = "idle" /\ rloads > 0

AllFailed == \A i \in 1..Len(calls) : calls[i].err # <<>>

\* C10: when a Load has returned and every inner Load failed, there were
\* exactly maxAttempts inner Loads and the error names maxAttempts and
\* wraps the cause of the last; otherwise the first successful inner Load
\* is the last one, it is at most the maxAttempts-th, and the Load returned
\* its result.
C10_RetryCountsAttempts ==
  Returned =>
    IF AllFailed
    THEN /\ Len(calls) = maxAttempts
         /\ rres.err # <<>>
         /\ SubSeq(rres.err, 1, 3) = <<"failed after", maxAttempts, "attempts">>
         /\ maxAttempts >= 1 =>
              SubSeq(rres.err, 4, Len(rres.err)) = calls[Len(calls)].err
    ELSE /\ Len(calls) <= maxAttempts
         /\ calls[Len(calls)].err = <<>>
         /\ \A i \in 1..(Len(calls) - 1) : calls[i].err # <<>>
         /\ rres.err = <<>>
         /\ rres.data = calls[Len(calls)].data

\* three attempts have failed and the Load has returned the error
C10_Witness ==
  /\ Returned
  /\ maxAttempts = 3
  /\ Len(calls) = 3
  /\ AllFailed
  /\ rres.err = <<"failed after", 3, "attempts", "inner", rcalls>>

\* the second attempt of three succeeded, after one sleep
C10_WitnessSuccess ==
  /\ Returned
  /\ maxAttempts = 3
  /\ Len(calls) = 2
  /\ rres.err = <<>>
  /\ slept = <<backoff>>


(***************************************************************************)
(* SpecWatch: an engine the Builder hands over with or without a File      *)
(* source; the caller registers further sources, loads, watches and        *)
(* closes, the files are written, removed and made unreadable, and the     *)
(* watch loop runs.                                                        *)
(***************************************************************************)
WatchedPaths == {"f1", "f2"}

Doc1 == [k \in {"b"} |-> StrV("1")]
Doc2 == [k \in {"b"} |-> StrV("2")]

WatchFileStates ==
  {[ok |-> TRUE, tree |-> Doc1], [ok |-> FALSE, tree |-> EmptyMap], Gone}

\* the File source of the Builder, registered before any other
BuilderFile ==
  [FileWithPriority("f1", DefaultEnvPriority + DefaultFilePriority)
     EXCEPT !.ord = 0, !.via = "Builder"]

WatchSourceChoices ==
  {FileWithPriority("f2", DefaultFilePriority),
   MemoryWithPriority(Nest1, DefaultFilePriority),
   MemoryWithPriority(Nest2, DefaultEnvPriority)}

InitWatchWith(fileStates, srcs) ==
  /\ sources \in srcs
  /\ data = EmptyMap
  /\ heap = HeapInit
  /\ files \in [WatchedPaths -> fileStates]
  /\ hooks = NoHooks.hooks
  /\ rules = NoHooks.rules
  /\ observers = <<>>
  /\ pending = <<>>
  /\ profiles = [k \in {} |-> EmptyMap]
  /\ active = ""
  /\ last = Ret("New", "")
  /\ loads = 0
  /\ adds = 0
  /\ NoWatch
  /\ NewCachedSource("counter", 0)
  /\ NewRetrySource(0, 0)

InitWatch == InitWatchWith({[ok |-> TRUE, tree |-> Doc1]}, {<<>>, <<BuilderFile>>})

NextWatch ==
  \/ \E src \in WatchSourceChoices : AddSource(src)
  \/ Load
  \/ Watch
  \/ Close
  \/ WatchLoopStart
  \/ WatchLoopTick
  \/ WatchLoopExit
  \/ \E path \in WatchedPaths, st \in WatchFileStates : FileWrite(path, st)

SpecWatch == InitWatch /\ [][NextWatch]_vars


(***************************************************************************)
(* SpecClose: the caller registers sources, watches and closes while a     *)
(* file is written; the scheduler runs every watch loop that can take a    *)
(* step, and a loop whose context is cancelled leaves its select.          *)
(***************************************************************************)
CloseSourceChoices ==
  {FileWithPriority("f2", DefaultFilePriority),
   MemoryWithPriority(Flat1, DefaultFilePriority)}

InitClose ==
  InitWatchWith({[ok |-> TRUE, tree |-> Doc1]}, {<<>>, <<MemoryWithPriority(Flat2, DefaultEnvPriority)>>})

NextClose ==
  \/ \E src \in CloseSourceChoices : AddSource(src)
  \/ Watch
  \/ Close
  \/ WatchLoopStart
  \/ WatchLoopTick
  \/ WatchLoopExit
  \/ \E st \in {[ok |-> TRUE, tree |-> Doc1], [ok |-> TRUE, tree |-> Doc2]} : FileWrite("f2", st)

SpecClose ==
  InitClose /\ [][NextClose]_vars /\ WF_vars(WatchLoopStart) /\ WF_vars(WatchLoopExit)


\* the registered sources that expose a watch path
Watchable == {i \in 1..Len(sources) : sources[i].kind = "file" /\ sources[i].path # ""}

\* C11: Watch returns an error and starts no loop when no registered source
\* exposes a watch path; when a source exposes one it returns nil and has
\* started one more watch loop, which has yet to take its first step.
C11_WatchNeedsAPath ==
  [][Watch =>
       IF Watchable = {}
       THEN last'.err # "" /\ loops' = loops
       ELSE /\ last'.err = ""
            /\ Len(loops') = Len(loops) + 1
            /\ loops'[Len(loops')].pc = "start"
            /\ \A j \in 1..Len(loops'[Len(loops')].paths) :
                 \E i \in Watchable : sources[i].path = loops'[Len(loops')].paths[j]
            /\ \A i \in 1..Len(loops) : loops'[i] = loops[i]]_vars

\* Watch has returned nil over a Memory source of lower order and a File
\* source, and the loop is started
C11_Witness ==
  /\ last.op = "Watch"
  /\ last.err = ""
  /\ Len(loops) = 1
  /\ Len(sources) >= 2
  /\ sources[1].kind = "memory"
  /\ Watchable # {}

AllLoopsDone == \A i \in 1..Len(loops) : loops[i].pc = "done"

\* C13: Close always succeeds and, called on a cancelled context, changes
\* nothing; once the context is cancelled every watch loop that runs
\* eventually returns.
C13_CloseStopsLoops ==
  /\ [][Close => (last'.err = "" /\ ctxDone' /\ (ctxDone => loops' = loops))]_vars
  /\ (ctxDone ~> AllLoopsDone)

\* a loop ran, the context was cancelled, the loop returned, and Close was
\* called once more
C13_Witness ==
  /\ ctxDone
  /\ Len(loops) >= 1
  /\ AllLoopsDone
  /\ last.op = "Close"

\* the loops that took the step: a tick that found a change moves a snapshot
TickedLoops == {i \in 1..Len(loops) : loops[i].pc = "select" /\ loops'[i] # loops[i]}

\* C12: a tick that finds a watched path modified calls Load once and leaves
\* the snapshot of every watched path at the path's current modification
\* time, so that the next tick, with no further modification, finds no change.
C12_TickSnapshotsEveryPath ==
  [][WatchLoopTick =>
       \A i \in TickedLoops :
         /\ loads' = loads + 1
         /\ \A q \in DOMAIN loops'[i].modTimes :
              Stat(files', q) => loops'[i].modTimes[q] = mtime'[q]
         /\ changedPaths(loops'[i].modTimes, files', mtime') = {}]_vars

\* C14: a reload of the watch loop that fails leaves the merged state as it
\* was, starts no observer and does not end the loop, which stays at its
\* select for the next tick.
C14_FailedReloadChangesNothing ==
  [][(WatchLoopTick /\ last'.op = "Reload" /\ last'.err \in AbortErrors) =>
       /\ View' = View
       /\ pending' = pending
       /\ \A i \in TickedLoops : loops'[i].pc = "select"]_vars


(***************************************************************************)
(* SpecHot: an engine a Builder made over two files, of which the second   *)
(* may not exist yet.  The caller loads and watches; once the loop is at   *)
(* its select the watched files are written, removed and created, and the  *)
(* ticker keeps firing.                                                    *)
(***************************************************************************)
BuilderFiles ==
  sortSources(<<BuilderFile,
                [FileWithPriority("f2", DefaultFilePriority) EXCEPT !.ord = 1, !.via = "Builder"]>>)

InitHot ==
  InitWatchWith({[ok |-> TRUE, tree |-> Doc1], Gone}, {<<BuilderFile>>, BuilderFiles})

\* the paths handed to a loop that has reached its select
HotWatched ==
  {q \in WatchedPaths : \E i \in 1..Len(loops) :
     loops[i].pc = "select" /\ \E j \in 1..Len(loops[i].paths) : loops[i].paths[j] = q}

NextHot ==
  \/ Load
  \/ Watch
  \/ WatchLoopStart
  \/ WatchLoopTick
  \/ \E path \in HotWatched, st \in {[ok |-> TRUE, tree |-> Doc1], [ok |-> TRUE, tree |-> Doc2], Gone} :
       FileWrite(path, st)

SpecHot ==
  InitHot /\ [][NextHot]_vars /\ WF_vars(WatchLoopStart) /\ WF_vars(WatchLoopTick)

\* every file of a File source can be read
Readable == \A i \in 1..Len(sources) : sources[i].kind = "file" => files[sources[i].path].ok

\* a watched file was written after its loop reached the select
Modified == \E q \in HotWatched : mtime[q] > 0

\* the merged state is the one a Load of the files as they are now commits
Fresh ==
  LET r == LoadOutcome(sources, {})
  IN r.err = "" /\ [k \in DOMAIN r.data |-> Content(r.data[k], r.heap)] = View

\* C15: with the ticker firing for ever, if from some point on every file can
\* be read, then after a modification of a watched file the merged state
\* eventually is the one a Load of the files' current contents commits.
C15_HotReload == (<>[]Readable) => [](Modified => <>Fresh)

\* C16: Set(k, v) makes v the value of k, and v stays until a Load commits;
\* a Load that commits leaves k with the value of the source that wins it,
\* or without a value when no source supplies k: the value written by Set is
\* gone unless a source supplies that value.
C16_SetUntilNextCommit ==
  /\ [][Set("b", StrV("s")) => ("b" \in DOMAIN data' /\ data'["b"] = StrV("s"))]_vars
  /\ [][("b" \in DOMAIN data /\ data["b"] = StrV("s") /\ ~last'.committed) =>
          ("b" \in DOMAIN data' /\ data'["b"] = StrV("s"))]_vars
  /\ [][(Load /\ last'.committed) =>
          /\ \A k \in DOMAIN data' \ {"c"} : Defining(k) # {}
          /\ "b" \in DOMAIN data' =>
                /\ data'["b"] = Supplied(Winner("b"), "b")
                /\ data'["b"] # StrV("s")]_vars

\* after a Load, Set has written a value to a key that a source supplies
\* with another value
C16_Witness ==
  /\ last.op = "Set"
  /\ loads >= 1
  /\ Defining("b") # {}
  /\ Supplied(Winner("b"), "b") # StrV("s")
  /\ data["b"] = StrV("s")


(***************************************************************************)
(* builder.go: the typed getters.  A stored scalar is its type and its     *)
(* text, the text fmt.Sprint prints.  fmt.Sscanf with %d reads an optional *)
(* sign and the digits that follow, and fails when there is no digit.      *)
(***************************************************************************)
BoolV(p) == [t |-> "bool", p |-> p]

\* the characters of the texts the model stores
Chars(text) ==
  CASE text = "" -> <<>>
    [] text = "12" -> <<"1", "2">>
    [] text = "-3" -> <<"-", "3">>
    [] text = "12abc" -> <<"1", "2", "a", "b", "c">>
    [] text = "true" -> <<"t", "r", "u", "e">>
    [] text = "false" -> <<"f", "a", "l", "s", "e">>
    [] OTHER -> <<text>>

Digits == <<"0", "1", "2", "3", "4", "5", "6", "7", "8", "9">>

IsDigit(c) == \E n \in 1..Len(Digits) : Digits[n] = c

RECURSIVE scanDigits(_, _, _)
scanDigits(cs, i, acc) ==
  IF i > Len(cs) \/ ~IsDigit(cs[i]) THEN [v |-> acc, n |-> i]
  ELSE scanDigits(cs, i + 1, acc * 10 + ((CHOOSE n \in 1..Len(Digits) : Digits[n] = cs[i]) - 1))

Sscanf(cs) ==
  LET signed == Len(cs) >= 1 /\ cs[1] \in {"-", "+"}
      start == IF signed THEN 2 ELSE 1
      r == scanDigits(cs, start, 0)
  IN [ok |-> r.n > start, v |-> IF signed /\ cs[1] = "-" THEN 0 - r.v ELSE r.v]

\* the converters of GetString, GetInt and GetBool
stringConv(v) == [ok |-> TRUE, v |-> v.p]

intConv(v) ==
  IF v.t = "int" THEN [ok |-> TRUE, v |-> Sscanf(Chars(v.p)).v] ELSE Sscanf(Chars(v.p))

boolConv(v) ==
  IF v.t = "bool" THEN [ok |-> TRUE, v |-> v.p = "true"]
  ELSE [ok |-> TRUE, v |-> v.p \in {"true", "1", "yes"}]

\* getTyped; conv[k] is what the converter returns for the value stored at k
getTyped(d, key, defaultVal, conv, zero) ==
  IF key \in DOMAIN d /\ conv[key].ok THEN conv[key].v
  ELSE IF Len(defaultVal) > 0 THEN defaultVal[1]
  ELSE zero

Got(op, key) == [NoResult EXCEPT !.op = op, !.key = key]

GetString(key, defaultVal) ==
  /\ got' = [Got("GetString", key) EXCEPT !.text = getTyped(data, key, defaultVal, [v \in DOMAIN data |-> stringConv(data[v])], "")]
  /\ UNCHANGED <<engineVars, cacheVars, retryVars, watchVars, lockVars, builderVars>>

GetInt(key, defaultVal) ==
  /\ got' = [Got("GetInt", key) EXCEPT !.int = getTyped(data, key, defaultVal, [v \in DOMAIN data |-> intConv(data[v])], 0)]
  /\ UNCHANGED <<engineVars, cacheVars, retryVars, watchVars, lockVars, builderVars>>

GetBool(key, defaultVal) ==
  /\ got' = [Got("GetBool", key) EXCEPT !.bool = getTyped(data, key, defaultVal, [v \in DOMAIN data |-> boolConv(data[v])], FALSE)]
  /\ UNCHANGED <<engineVars, cacheVars, retryVars, watchVars, lockVars, builderVars>>

(***************************************************************************)
(* SpecRead: the caller writes scalars of every type to a key and reads    *)
(* that key and a key that is absent through the typed getters, with and   *)
(* without a default.                                                      *)
(***************************************************************************)
ReadValues ==
  {IntV("12"), IntV("-3"), BoolV("true"), BoolV("false"),
   StrV("12"), StrV("12abc"), StrV("true"), StrV("1"), StrV("yes"), StrV("false"), StrV("s"), StrV("")}

ReadKeys == {"a", "z"}

InitRead == InitWatchWith({[ok |-> TRUE, tree |-> Doc1]}, {<<>>})

NextRead ==
  \/ \E v \in ReadValues : Set("a", v)
  \/ \E key \in ReadKeys, d \in {<<>>, <<"dflt">>} : GetString(key, d)
  \/ \E key \in ReadKeys, d \in {<<>>, <<42>>} : GetInt(key, d)
  \/ \E key \in ReadKeys, d \in {<<>>, <<TRUE>>, <<FALSE>>} : GetBool(key, d)

SpecRead == InitRead /\ [][NextRead]_vars

\* the texts that are boolean tokens, and the texts that are decimal numbers
BoolTokens == {"true", "false", "1", "0", "yes", "no"}
Numerals == {"12", "-3", "1"}
NoNumber == {"", "s", "true", "false", "yes"}

\* C17: a typed getter called with a default returns the default when the
\* key is absent and when the stored value cannot be coerced to the type
\* (GetBool on a string that is no boolean token, GetInt on a string with
\* no number in it); otherwise it returns the coerced stored value.
C17_DefaultWhenNotCoercible ==
  /\ [][\A key \in ReadKeys, d \in {"dflt"} : GetString(key, <<d>>) =>
          got'.text = IF key \in DOMAIN data THEN data[key].p ELSE d]_vars
  /\ [][\A key \in ReadKeys, d \in {42} : GetInt(key, <<d>>) =>
          IF key \notin DOMAIN data \/ (data[key].t # "int" /\ data[key].p \in NoNumber)
          THEN got'.int = d
          ELSE data[key].p \in Numerals => got'.int = Sscanf(Chars(data[key].p)).v]_vars
  /\ [][\A key \in ReadKeys, d \in BOOLEAN : GetBool(key, <<d>>) =>
          IF key \notin DOMAIN data \/ (data[key].t # "bool" /\ data[key].p \notin BoolTokens)
          THEN got'.bool = d
          ELSE got'.bool = (data[key].p \in {"true", "1", "yes"})]_vars


(***************************************************************************)
(* builder.go: AddRule, ValidateKey and ValidateAll as a caller invokes    *)
(* them.                                                                   *)
(***************************************************************************)
AddRule(key, rule) ==
  /\ rules' = Put(rules, key, rule)
  /\ last' = Ret("AddRule", "")
  /\ UNCHANGED <<sources, data, heap, files, hooks, observers, pending, profiles, active, loads, adds>>
  /\ UNCHANGED <<cacheVars, retryVars, watchVars, got, lockVars, builderVars>>

ValidateKey(rs, d, key) ==
  IF key \notin DOMAIN rs THEN ""
  ELSE IF key \notin DOMAIN d
       THEN IF ContainsRequired(rs[key]) THEN "is required but not found" ELSE ""
       ELSE validateValue(d[key], rs[key])

CallValidateKey(key) ==
  /\ got' = [Got("ValidateKey", key) EXCEPT !.err = ValidateKey(rules, data, key)]
  /\ UNCHANGED <<engineVars, cacheVars, retryVars, watchVars, lockVars, builderVars>>

CallValidateAll ==
  /\ got' = [Got("ValidateAll", "") EXCEPT
               !.errors = ValidateAll(rules, data),
               !.err = IF ValidateAll(rules, data) # {} THEN "validation failed" ELSE ""]
  /\ UNCHANGED <<engineVars, cacheVars, retryVars, watchVars, lockVars, builderVars>>

(***************************************************************************)
(* SpecRules: the caller registers rules for two keys, gives the keys      *)
(* values by Set and by a Load of a Memory source, and validates.          *)
(***************************************************************************)
RuleKeys == {"a", "b"}

RuleChoices == {<<"required">>, <<"min=2">>, <<"required", "min=2">>}

InitRules == InitWatchWith({[ok |-> TRUE, tree |-> Doc1]}, {<<>>})

NextRules ==
  \/ \E key \in RuleKeys, rule \in RuleChoices : AddRule(key, rule)
  \/ \E key \in RuleKeys, v \in {IntV("1"), IntV("2")} : Set(key, v)
  \/ AddSource(MemoryWithPriority(Flat2, DefaultMemoryPriority))
  \/ Load
  \/ \E key \in RuleKeys : CallValidateKey(key)
  \/ CallValidateAll

SpecRules == InitRules /\ [][NextRules]_vars

\* key k has a rule that holds the constraint c
HasConstraint(k, c) == k \in DOMAIN rules /\ \E i \in 1..Len(rules[k]) : rules[k][i] = c

\* key k has a value that violates a constraint of its rule other than
\* `required`
ViolatesOther(k) ==
  /\ k \in DOMAIN rules
  /\ k \in DOMAIN data
  /\ \E i \in 1..Len(rules[k]) : rules[k][i] # "required" /\ Violates(data[k], rules[k][i])

\* C18: for a key under a `required` rule, ValidateKey and ValidateAll fail
\* while the key has no value, and pass the key once it has a value that
\* violates no other constraint; ValidateKey passes a key that has no rule.
C18_RequiredNeedsAValue ==
  /\ [][\A k \in RuleKeys : CallValidateKey(k) =>
          /\ k \notin DOMAIN rules => got'.err = ""
          /\ (HasConstraint(k, "required") /\ k \notin DOMAIN data) => got'.err # ""
          /\ (HasConstraint(k, "required") /\ k \in DOMAIN data /\ ~ViolatesOther(k)) =>
               got'.err = ""]_vars
  /\ [][CallValidateAll =>
          /\ \A k \in RuleKeys :
               /\ (HasConstraint(k, "required") /\ k \notin DOMAIN data) =>
                    (k \in got'.errors /\ got'.err # "")
               /\ (HasConstraint(k, "required") /\ k \in DOMAIN data /\ ~ViolatesOther(k)) =>
                    k \notin got'.errors
          /\ got'.errors = {} <=> got'.err = ""]_vars

\* ValidateAll has passed a key under `required` to which a Load gave a
\* value, with a rule of another kind on the other key
C18_Witness ==
  /\ got.op = "ValidateAll"
  /\ got.err = ""
  /\ HasConstraint("a", "required")
  /\ "a" \in DOMAIN data
  /\ last.op = "Load"
  /\ HasConstraint("b", "min=2")

\* C19: when a key has a rule and a value that violates a constraint of the
\* rule, ValidateKey returns an error and ValidateAll reports the key.
C19_ViolationIsAnError ==
  /\ [][\A k \in RuleKeys : (CallValidateKey(k) /\ ViolatesOther(k)) => got'.err # ""]_vars
  /\ [][CallValidateAll =>
          \A k \in RuleKeys : ViolatesOther(k) => (k \in got'.errors /\ got'.err # "")]_vars


(***************************************************************************)
(* builder.go: Load and AddRule as goroutines run them, one step for each  *)
(* acquisition of Config.mu and for each stretch of code between two lock  *)
(* operations.  Load holds the lock exclusively while it merges and        *)
(* commits, releases it, reads len(c.validationRules), calls ValidateAll,  *)
(* which shares the lock, and takes the lock again for its deferred        *)
(* Unlock.                                                                  *)
(***************************************************************************)
Free == mu.writer = "" /\ mu.readers = {}

At(g, pc) == gpc[g].pc = pc

Goto(g, pc) == [gpc EXCEPT ![g].pc = pc]

\* a variant of applyProfile that calls Load with the lock held
keepLocked(m) == m

\* applyProfile: pm.config.mu.Unlock() before the call of Load
unlockForLoad(m) == [m EXCEPT !.writer = ""]

\* Load returns err: to the caller, or to the applyProfile that called it
Return(g, err) ==
  IF gpc[g].from = "profile" THEN [gpc EXCEPT ![g].pc = "applied", ![g].err = err]
  ELSE [gpc EXCEPT ![g] = Idle]

\* Load: c.mu.Lock()
LoadLock(g) ==
  /\ (At(g, "idle") /\ loads < MaxLoads) \/ At(g, "callload")
  /\ Free
  /\ mu' = [mu EXCEPT !.writer = g]
  /\ gpc' = Goto(g, "loading")
  /\ UNCHANGED <<engineVars, cacheVars, retryVars, watchVars, got, builderVars>>

\* Load: the hooks, the merge and the commit, then c.mu.Unlock(): the
\* deferred one when Load aborts, the one before the validation otherwise
LoadMerge(g) ==
  /\ At(g, "loading")
  /\ \E bad \in SUBSET Fallible : \E r \in {LoadOutcome(sources, bad)} :
       /\ data' = r.data
       /\ heap' = r.heap
       /\ pending' = pending \o r.spawned
       /\ last' = [op |-> "Load", err |-> IF r.committed THEN "" ELSE r.err,
                   changed |-> r.changed, spawned |-> r.spawned, committed |-> r.committed]
       /\ gpc' = IF r.committed THEN Goto(g, "unlocked") ELSE Return(g, r.err)
  /\ loads' = loads + 1
  /\ mu' = [mu EXCEPT !.writer = ""]
  /\ UNCHANGED <<sources, files, hooks, rules, observers, profiles, active, adds>>
  /\ UNCHANGED <<cacheVars, retryVars, watchVars, got, builderVars>>

\* Load: if len(c.validationRules) > 0, read with the lock released.  When
\* an AddRule is about to write the map, the read sees the map before or
\* after that write.
LoadLenRules(g) ==
  /\ At(g, "unlocked")
  /\ \E seen \in {DOMAIN rules # {}} \cup {TRUE : h \in {x \in Goroutines \ {g} : At(x, "addrule")}} :
       gpc' = Goto(g, IF seen THEN "validate" ELSE "relock")
  /\ UNCHANGED <<engineVars, cacheVars, retryVars, watchVars, got, mu, builderVars>>

\* ValidateAll: c.mu.RLock()
ValidateAllRLock(g) ==
  /\ At(g, "validate")
  /\ mu.writer = ""
  /\ mu' = [mu EXCEPT !.readers = @ \cup {g}]
  /\ gpc' = Goto(g, "validating")
  /\ UNCHANGED <<engineVars, cacheVars, retryVars, watchVars, got, builderVars>>

\* ValidateAll: the copy of the rules and of the data, c.mu.RUnlock(), and
\* the validation of the copies
ValidateAllCopy(g) ==
  /\ At(g, "validating")
  /\ mu' = [mu EXCEPT !.readers = @ \ {g}]
  /\ gpc' = [gpc EXCEPT ![g].pc = "relock",
                        ![g].err = IF ValidateAll(rules, data) # {} THEN "validation failed" ELSE ""]
  /\ UNCHANGED <<engineVars, cacheVars, retryVars, watchVars, got, builderVars>>

\* Load: c.mu.Lock(), return, and the deferred c.mu.Unlock()
LoadRelock(g) ==
  /\ At(g, "relock")
  /\ Free
  /\ gpc' = Return(g, gpc[g].err)
  /\ last' = [Ret("Load", gpc[g].err) EXCEPT !.committed = TRUE]
  /\ UNCHANGED <<sources, data, heap, files, hooks, rules, observers, pending, profiles, active, loads, adds>>
  /\ UNCHANGED <<cacheVars, retryVars, watchVars, got, mu, builderVars>>

\* AddRule: c.mu.Lock()
AddRuleLock(g, key, rule) ==
  /\ At(g, "idle")
  /\ Free
  /\ mu' = [mu EXCEPT !.writer = g]
  /\ gpc' = [gpc EXCEPT ![g] = [Idle EXCEPT !.pc = "addrule", !.key = key, !.rule = rule]]
  /\ UNCHANGED <<engineVars, cacheVars, retryVars, watchVars, got, builderVars>>

\* AddRule: c.validationRules[key] = rule, and the deferred c.mu.Unlock()
AddRuleWrite(g) ==
  /\ At(g, "addrule")
  /\ rules' = Put(rules, gpc[g].key, gpc[g].rule)
  /\ mu' = [mu EXCEPT !.writer = ""]
  /\ gpc' = [gpc EXCEPT ![g] = Idle]
  /\ last' = Ret("AddRule", "")
  /\ UNCHANGED <<sources, data, heap, files, hooks, observers, pending, profiles, active, loads, adds>>
  /\ UNCHANGED <<cacheVars, retryVars, watchVars, got, builderVars>>

(***************************************************************************)
(* SpecLock: two goroutines call Load and AddRule on one engine that holds *)
(* a Memory source.                                                        *)
(***************************************************************************)
InitLock ==
  InitWatchWith({[ok |-> TRUE, tree |-> Doc1]}, {<<MemoryWithPriority(Flat1, DefaultMemoryPriority)>>})

NextLock ==
  \E g \in Goroutines :
    \/ LoadLock(g)
    \/ LoadMerge(g)
    \/ LoadLenRules(g)
    \/ ValidateAllRLock(g)
    \/ ValidateAllCopy(g)
    \/ LoadRelock(g)
    \/ \E rule \in RuleChoices : AddRuleLock(g, "a", rule)
    \/ AddRuleWrite(g)

SpecLock == InitLock /\ [][NextLock]_vars

\* what goroutine g is about to read or write, and how it holds the lock
Accessing(g) ==
  CASE At(g, "loading") -> {[var |-> "sources", write |-> FALSE], [var |-> "data", write |-> TRUE]}
    [] At(g, "unlocked") -> {[var |-> "rules", write |-> FALSE]}
    [] At(g, "validating") -> {[var |-> "rules", write |-> FALSE], [var |-> "data", write |-> FALSE]}
    [] At(g, "addrule") -> {[var |-> "rules", write |-> TRUE]}
    [] OTHER -> {}

Holds(g) == IF mu.writer = g THEN "exclusive" ELSE IF g \in mu.readers THEN "shared" ELSE "none"

\* C20: no goroutine is about to read the sources, the merged map or the
\* rule set without holding the lock while another goroutine is about to
\* write the same: every access that meets a write is made under the lock.
C20_NoUnprotectedRace ==
  \A g \in Goroutines : \A h \in Goroutines \ {g} :
    \A a \in Accessing(g), b \in Accessing(h) :
      (a.var = b.var /\ b.write) => Holds(g) # "none"


(***************************************************************************)
(* builder.go: Get, and part_003: SetActiveProfile with the applyProfile   *)
(* it calls, as goroutines run them.  applyProfile takes the lock, swaps   *)
(* the profile source, releases the lock, calls Load and takes the lock    *)
(* again for its deferred Unlock.                                          *)
(***************************************************************************)
\* Get: c.mu.RLock()
GetRLock(g, key) ==
  /\ At(g, "idle")
  /\ mu.writer = ""
  /\ mu' = [mu EXCEPT !.readers = @ \cup {g}]
  /\ gpc' = [gpc EXCEPT ![g].pc = "get", ![g].key = key]
  /\ UNCHANGED <<engineVars, cacheVars, retryVars, watchVars, got, builderVars>>

\* Get: the read of c.data[key] and the deferred c.mu.RUnlock()
GetRead(g) ==
  /\ At(g, "get")
  /\ mu' = [mu EXCEPT !.readers = @ \ {g}]
  /\ gpc' = [gpc EXCEPT ![g] = Idle]
  /\ got' = [Got("Get", gpc[g].key) EXCEPT
               !.text = IF gpc[g].key \in DOMAIN data THEN data[gpc[g].key].p ELSE ""]
  /\ UNCHANGED <<engineVars, cacheVars, retryVars, watchVars, builderVars>>

\* SetActiveProfile of a profile that exists; applyProfile: pm.config.mu.Lock()
ApplyProfileLock(g, name) ==
  /\ At(g, "idle")
  /\ name \in DOMAIN profiles
  /\ adds < MaxSources
  /\ Free
  /\ active' = name
  /\ mu' = [mu EXCEPT !.writer = g]
  /\ gpc' = [gpc EXCEPT ![g] = [Idle EXCEPT !.pc = "profile", !.key = name, !.from = "profile"]]
  /\ UNCHANGED <<sources, data, heap, files, hooks, rules, observers, pending, profiles, last, loads, adds>>
  /\ UNCHANGED <<cacheVars, retryVars, watchVars, got, builderVars>>

\* applyProfile: the new source list, then the Unlock before Load is called
ApplyProfileSources(g) ==
  /\ At(g, "profile")
  /\ sources' = applyProfileSources(sources, gpc[g].key, adds + 1)
  /\ adds' = adds + 1
  /\ mu' = unlockForLoad(mu)
  /\ gpc' = Goto(g, "callload")
  /\ UNCHANGED <<data, heap, files, hooks, rules, observers, pending, profiles, active, last, loads>>
  /\ UNCHANGED <<cacheVars, retryVars, watchVars, got, builderVars>>

\* applyProfile: after Load, pm.config.mu.Lock(), return err and the
\* deferred Unlock
ApplyProfileRelock(g) ==
  /\ At(g, "applied")
  /\ mu.writer \in {"", g}
  /\ mu.readers = {}
  /\ mu' = [mu EXCEPT !.writer = ""]
  /\ gpc' = [gpc EXCEPT ![g] = Idle]
  /\ last' = Ret("SetActiveProfile", gpc[g].err)
  /\ UNCHANGED <<sources, data, heap, files, hooks, rules, observers, pending, profiles, active, loads, adds>>
  /\ UNCHANGED <<cacheVars, retryVars, watchVars, got, builderVars>>

(***************************************************************************)
(* SpecLive: two goroutines call Load, Get and SetActiveProfile on one      *)
(* engine that has a rule, each a bounded number of times.  A goroutine that has    *)
(* called an operation keeps running, and one that waits for the lock gets *)
(* it once the lock stays free.                                            *)
(***************************************************************************)
\* the steps of goroutine g inside an operation
Progress(g) ==
  \/ (At(g, "callload") /\ LoadLock(g))
  \/ LoadMerge(g)
  \/ LoadLenRules(g)
  \/ ValidateAllRLock(g)
  \/ ValidateAllCopy(g)
  \/ LoadRelock(g)
  \/ GetRead(g)
  \/ ApplyProfileSources(g)
  \/ ApplyProfileRelock(g)

\* the Loads that goroutines inside an operation have yet to count
Owed == Cardinality({h \in Goroutines : gpc[h].pc \in {"profile", "callload", "loading"}})

InitLive ==
  EngineWith({[hooks |-> NewHookManager, rules |-> [k \in {"c"} |-> <<"required">>]]}, <<>>,
             AddProfileTo([k \in {} |-> EmptyMap], "P", ProfileP))

NextLive ==
  \E g \in Goroutines :
    \/ (loads + Owed < MaxLoads /\ LoadLock(g))
    \/ (got.op = "" /\ GetRLock(g, "a"))
    \/ (loads + Owed < MaxLoads /\ ApplyProfileLock(g, "P"))
    \/ Progress(g)

SpecLive ==
  InitLive /\ [][NextLive]_vars /\ \A g \in Goroutines : WF_vars(Progress(g))

\* C21: every operation a goroutine has started eventually returns, and no
\* goroutine holds the engine lock for ever.
C21_OperationsReturn ==
  /\ [](\A g \in Goroutines : At(g, "idle") => Holds(g) = "none")
  /\ \A g \in Goroutines : (~At(g, "idle")) ~> At(g, "idle")

\* a SetActiveProfile has returned while the other goroutine is inside a Load
C21_Witness ==
  /\ last.op = "SetActiveProfile"
  /\ At("g1", "idle")
  /\ At("g2", "unlocked")
  /\ loads >= 2

(***************************************************************************)
(* The source decorators and the chain builder.  A decorator is a source   *)
(* that owns the source it wraps (`source`); its BaseSource is built from  *)
(* the wrapped source's Name and Priority.  A middleware is the name of    *)
(* the function that made it.                                              *)
(***************************************************************************)
MaxChain == 3

Name(src) == src.name
Priority(src) == src.priority

\* a decorator that passes its own name and no priority to NewBaseSource
newUnnamedSource(kind, prefix, source) ==
  [kind |-> kind, name |-> <<prefix>>, priority |-> 0, data |-> EmptyMap,
   path |-> "", ord |-> 0, via |-> "", source |-> source]

\* NewCachedSource, NewRetrySource, NewTemplateSource, NewEncryptionSource:
\* BaseSource: NewBaseSource(prefix+source.Name(), source.Priority()), source: source
newDecorator(kind, prefix, source) ==
  [kind |-> kind, name |-> <<prefix>> \o Name(source), priority |-> Priority(source),
   data |-> EmptyMap, path |-> "", ord |-> 0, via |-> "", source |-> source]

WithTemplate(src) == newDecorator("template", "template:", src)
WithEncryption(src) == newDecorator("encryption", "encryption:", src)
WithCaching(src) == newDecorator("cached", "cached:", src)
WithRetry(src) == newDecorator("retry", "retry:", src)

Middlewares == {"WithTemplate", "WithEncryption", "WithCaching", "WithRetry"}

\* middleware[i](src)
callMiddleware(m, src) ==
  CASE m = "WithTemplate" -> WithTemplate(src)
    [] m = "WithEncryption" -> WithEncryption(src)
    [] m = "WithCaching" -> WithCaching(src)
    [] m = "WithRetry" -> WithRetry(src)

\* a loop that applies the middleware from the first to the last: the loop
\* of Config.AddSourceWithMiddleware, for _, mw := range middleware
RECURSIVE chainUp(_, _, _)
chainUp(middleware, i, src) ==
  IF i > Len(middleware) THEN src
  ELSE chainUp(middleware, i + 1, callMiddleware(middleware[i], src))

chainInListedOrder(middleware, src) == chainUp(middleware, 1, src)

\* the loop of ChainMiddleware: for i := len(middleware) - 1; i >= 0; i--
RECURSIVE chainDown(_, _, _)
chainDown(middleware, i, src) ==
  IF i < 1 THEN src
  ELSE chainDown(middleware, i - 1, callMiddleware(middleware[i], src))

\* ChainMiddleware(middleware...)(src)
ChainMiddleware(middleware, src) == chainDown(middleware, Len(middleware), src)

\* Builder.AddSourceWithMiddleware(src, mw...), and Builder.AddSource(src) of
\* a Builder whose middleware is mw; `last` keeps the arguments
BuilderAddSourceWithMiddleware(src, mw) ==
  /\ adds < MaxSources
  /\ sources' = sortSources(Append(sources, [ChainMiddleware(mw, src) EXCEPT
                                               !.ord = adds + 1, !.via = "AddSource"]))
  /\ adds' = adds + 1
  /\ last' = [op |-> "AddSourceWithMiddleware", err |-> "", src |-> src, mw |-> mw,
              added |-> ChainMiddleware(mw, src)]
  /\ UNCHANGED <<data, heap, files, hooks, rules, observers, pending, profiles, active, loads>>
  /\ UNCHANGED <<cacheVars, retryVars, watchVars, got, lockVars, builderVars>>

(***************************************************************************)
(* SpecChain: a Builder registers one source behind a chain of at most     *)
(* MaxChain middleware.                                                     *)
(***************************************************************************)
RECURSIVE SeqsUpTo(_, _)
SeqsUpTo(S, n) ==
  IF n = 0 THEN {<<>>}
  ELSE SeqsUpTo(S, n - 1) \cup {Append(q, x) : q \in {r \in SeqsUpTo(S, n - 1) : Len(r) = n - 1}, x \in S}

ChainSourceChoices ==
  {MemoryWithPriority(Flat1, DefaultMemoryPriority),
   MemoryWithPriority(Flat2, DefaultEnvPriority),
   FileWithPriority("f1", DefaultFilePriority)}

InitChain == EngineWith({NoHooks}, <<>>, [k \in {} |-> EmptyMap])

NextChain ==
  \E src \in ChainSourceChoices, mw \in SeqsUpTo(Middlewares, MaxChain) :
    sources = <<>> /\ BuilderAddSourceWithMiddleware(src, mw)

SpecChain == InitChain /\ [][NextChain]_vars

\* the decorators around a source, outermost first, and the source inside
RECURSIVE Layers(_)
Layers(s) == IF "source" \in DOMAIN s THEN <<s.kind>> \o Layers(s.source) ELSE <<>>

RECURSIVE Innermost(_)
Innermost(s) == IF "source" \in DOMAIN s THEN Innermost(s.source) ELSE s

KindOf(m) == callMiddleware(m, MemoryWithPriority(EmptyMap, 0)).kind

\* C22: the source that ChainMiddleware(m1, ..., mn) makes of src has the
\* decorator of m1 outermost (it is the source the engine holds and loads),
\* then that of m2, ..., that of mn innermost, and mn wraps src itself.
C22_FirstListedOutermost ==
  last.op = "AddSourceWithMiddleware" =>
    /\ Layers(last.added) = [i \in 1..Len(last.mw) |-> KindOf(last.mw[i])]
    /\ Innermost(last.added) = last.src
    /\ Layers(sources[1]) = Layers(last.added)

\* three different middleware were chained around a source
C22_Witness ==
  /\ last.op = "AddSourceWithMiddleware"
  /\ last.mw = <<"WithCaching", "WithRetry", "WithEncryption">>
  /\ sources[1].kind = "cached"
  /\ sources[1].source.source.source = last.src

Prefix(kind) ==
  CASE kind = "cached" -> "cached:" [] kind = "retry" -> "retry:"
    [] kind = "template" -> "template:" [] kind = "encryption" -> "encryption:"

\* s and every decorator inside it keep the three properties
RECURSIVE DecoratorsDelegate(_)
DecoratorsDelegate(s) ==
  "source" \in DOMAIN s =>
    /\ Priority(s) = Priority(Innermost(s))
    /\ WatchPaths(s) = WatchPaths(Innermost(s))
    /\ Name(s) = <<Prefix(s.kind)>> \o Name(s.source)
    /\ DecoratorsDelegate(s.source)

\* C23: a decorated source, at every nesting depth, has the Priority and the
\* WatchPaths of the innermost source, and its Name is the prefix of its
\* decorator followed by the Name of the source it wraps.
C23_DecoratorsDelegate ==
  \A i \in 1..Len(sources) : DecoratorsDelegate(sources[i])

\* a file source with a priority and a watch path behind three decorators
C23_Witness ==
  /\ sources # <<>>
  /\ Len(Layers(sources[1])) = 3
  /\ WatchPaths(sources[1]) = <<"f1">>
  /\ Priority(sources[1]) = DefaultFilePriority
  /\ Name(sources[1]) = <<"template:", "retry:", "cached:", "file:", "f1">>

(***************************************************************************)
(* SpecSources: a caller adds and removes sources and switches profiles.   *)
(***************************************************************************)
ListSourceChoices ==
  {FileWithPriority("f1", DefaultFilePriority),
   MemoryWithPriority(Flat1, DefaultFilePriority),
   MemoryWithPriority(Flat2, DefaultMemoryPriority),
   MemoryWithPriority(Top1, ProfilePriority)}

NextSources ==
  \/ \E src \in ListSourceChoices : AddSource(src)
  \/ \E name \in {<<"memory">>, <<"file:", "f1">>} : sources # <<>> /\ RemoveSource(name)
  \/ \E name \in {"P", "Q"} : SetActiveProfile(name)

SpecSources == InitProfile /\ [][NextSources]_vars

\* C24: the source list is sorted by ascending priority, and sources of one
\* priority stand in the order in which they were added.
C24_SortedAndStable ==
  \A i \in 1..Len(sources) : \A j \in 1..Len(sources) :
    i < j => /\ sources[i].priority <= sources[j].priority
             /\ sources[i].priority = sources[j].priority => sources[i].ord < sources[j].ord

\* after additions, a removal and two profile switches, the two profile
\* sources, of one priority, stand in the order of the switches
C24_Witness ==
  /\ last.op = "SetActiveProfile"
  /\ Len(sources) = 3
  /\ sources[2].priority = sources[3].priority
  /\ sources[2].via = "P" /\ sources[3].via = "Q"
  /\ \E n \in 1..adds : \A i \in 1..Len(sources) : sources[i].ord # n

(***************************************************************************)
(* SpecMerge: deepMerge on nested maps of two levels.  The maps under dst  *)
(* are the objects d1 (holding d2), those under src s1 (holding s2).       *)
(***************************************************************************)
\* the maps that give keys `plain` a scalar or nothing and key k a scalar, a
\* nested map or nothing
MapsOf(k, plain, scalar, nested) ==
  UNION {[ks -> {scalar}] : ks \in SUBSET plain} \cup
  {Put(m, k, v) : m \in UNION {[ks -> {scalar}] : ks \in SUBSET plain}, v \in {scalar, nested}}

MergeHeaps ==
  {[o \in {"d1", "d2", "s1", "s2"} |->
      CASE o = "d1" -> d1 [] o = "d2" -> d2 [] o = "s1" -> s1 [] o = "s2" -> s2] :
     d1 \in MapsOf("x", {"y"}, IntV("1"), MapV("d2")),
     s1 \in MapsOf("x", {"y"}, IntV("2"), MapV("s2")),
     d2 \in {[k \in {"x"} |-> IntV("1")]},
     s2 \in {[k \in {"y"} |-> IntV("2")], [k \in {"x", "y"} |-> IntV("2")]}}

InitMerge ==
  /\ sources = <<>>
  /\ data \in MapsOf("a", {"b"}, IntV("1"), MapV("d1"))
  /\ heap \in MergeHeaps
  /\ files = [p \in Paths |-> Gone]
  /\ hooks = NewHookManager
  /\ rules = [k \in {} |-> <<>>]
  /\ observers = <<>>
  /\ pending = <<>>
  /\ profiles = [k \in {} |-> EmptyMap]
  /\ active = ""
  /\ last = Ret("New", "")
  /\ loads = 0
  /\ adds = 0
  /\ NoWatch
  /\ NewCachedSource("counter", 0)
  /\ NewRetrySource(0, 0)

\* the value of v, a nested map by the values of its entries
RECURSIVE Tree(_, _)
Tree(v, h) ==
  IF IsMap(v) THEN [t |-> "map", p |-> [k \in DOMAIN h[v.p] |-> Tree(h[v.p][k], h)]] ELSE v

TreeOf(m, h) == [k \in DOMAIN m |-> Tree(m[k], h)]

\* a call deepMerge(c.data, src); `last` keeps the values of the arguments
DeepMerge(src) ==
  /\ last.op = "New"
  /\ \E r \in {deepMerge(data, src, heap)} : data' = r.m /\ heap' = r.h
  /\ last' = [op |-> "deepMerge", err |-> "", dst |-> TreeOf(data, heap), src |-> TreeOf(src, heap)]
  /\ UNCHANGED <<sources, files, hooks, rules, observers, pending, profiles, active, loads, adds>>
  /\ UNCHANGED <<cacheVars, retryVars, watchVars, got, lockVars, builderVars>>

NextMerge == \E src \in MapsOf("a", {"b"}, IntV("2"), MapV("s1")) : DeepMerge(src)

SpecMerge == InitMerge /\ [][NextMerge]_vars

\* the reference deep merge of two values, nested maps by their entries
RECURSIVE RefMerge(_, _)
RefMerge(d, s) ==
  [k \in (DOMAIN d) \cup (DOMAIN s) |->
     IF k \notin DOMAIN s THEN d[k]
     ELSE IF k \in DOMAIN d /\ IsMap(d[k]) /\ IsMap(s[k])
          THEN [t |-> "map", p |-> RefMerge(d[k].p, s[k].p)]
          ELSE s[k]]

\* C25: what deepMerge(dst, src) leaves in dst is the reference deep merge
\* of the two maps: nested maps on both sides merged recursively, any other
\* value of src replacing that of dst, the keys of dst alone kept.
C25_DeepMergeIsReference ==
  last.op = "deepMerge" => TreeOf(data, heap) = RefMerge(last.dst, last.src)

\* {a: {x: {x: 1}, y: 1}, b: 1} merged with {a: {x: {y: 2}}} is
\* {a: {x: {x: 1, y: 2}, y: 1}, b: 1}
C25_Witness ==
  /\ last.op = "deepMerge"
  /\ DOMAIN last.src = {"a"} /\ DOMAIN data = {"a", "b"}
  /\ data["b"] = IntV("1")
  /\ IsMap(data["a"])
  /\ DOMAIN heap[data["a"].p] = {"x", "y"}
  /\ heap[data["a"].p]["y"] = IntV("1")
  /\ IsMap(heap[data["a"].p]["x"])
  /\ heap[heap[data["a"].p]["x"].p] = [k \in {"x", "y"} |-> IF k = "x" THEN IntV("1") ELSE IntV("2")]

(***************************************************************************)
(* SpecUnion: sources of one, two or no common keys, of several            *)
(* priorities, registered in any order and loaded.                         *)
(***************************************************************************)
OnlyC == [k \in {"c"} |-> MapV("o1")]

UnionSourceChoices ==
  {MemoryWithPriority(d, p) : d \in {Flat1, Flat2, OnlyC},
                              p \in {DefaultMemoryPriority, DefaultFilePriority, DefaultEnvPriority}}

InitUnion == EngineWith(Setups, <<>>, [k \in {} |-> EmptyMap])

NextUnion ==
  \/ \E src \in UnionSourceChoices : AddSource(src)
  \/ Load

SpecUnion == InitUnion /\ [][NextUnion]_vars

\* no key is contributed by two of the registered sources
DisjointSources == \A k \in AllKeys : Cardinality(Defining(k)) <= 1

\* the keys a registered defaults hook supplies
DefaultKeys ==
  UNION {DOMAIN hooks.postLoad[i].defaults : i \in 1..Len(hooks.postLoad)}

\* C26: when no two registered sources contribute a common key, the state a
\* Load commits holds every key of every source with that source's value,
\* and no other key than those a defaults hook fills in, whatever the
\* priorities and the order of registration are.
C26_DisjointSourcesUnion ==
  (last.op = "Load" /\ last.committed /\ DisjointSources) =>
    /\ \A k \in AllKeys : \A i \in Defining(k) :
         /\ k \in DOMAIN data
         /\ Content(data[k], heap) = Content(Supplied(i, k), heap)
    /\ {k \in AllKeys : Defining(k) # {}} \subseteq DOMAIN data
    /\ DOMAIN data \subseteq {k \in AllKeys : Defining(k) # {}} \cup DefaultKeys

\* two sources of disjoint keys, the one of higher priority registered
\* first, loaded with no hook: the state is the union of their keys
C26_Witness ==
  /\ last.op = "Load" /\ last.committed /\ DisjointSources
  /\ hooks = NewHookManager
  /\ Len(sources) = 2
  /\ sources[1].ord > sources[2].ord
  /\ sources[1].priority < sources[2].priority
  /\ DOMAIN data = {"a", "b", "c"}

(***************************************************************************)
(* SpecDiff: sources that give key a the integer 1, the string "1" or the  *)
(* integer 2 are added, removed and loaded, and the key is Set.            *)
(***************************************************************************)
Str1 == [k \in {"a"} |-> StrV("1")]

DiffSourceChoices ==
  {MemoryWithPriority(Flat1, DefaultFilePriority),
   MemoryWithPriority(Str1, DefaultEnvPriority),
   MemoryWithPriority(Flat2, DefaultEnvPriority)}

InitDiff == EngineWith({NoHooks}, <<>>, [k \in {} |-> EmptyMap])

NextDiff ==
  \/ \E src \in DiffSourceChoices : AddSource(src)
  \/ (sources # <<>> /\ RemoveSource(<<"memory">>))
  \/ Set("a", StrV("1"))
  \/ Load

SpecDiff == InitDiff /\ [][NextDiff]_vars

\* a in heap ha and b in heap hb are the same value: of one type, and the
\* same scalar or nested maps of the same entries
ValueEqual(a, ha, b, hb) ==
  /\ a.t = b.t
  /\ IF IsMap(a) THEN ha[a.p] = hb[b.p] ELSE a.p = b.p

\* C27: the diff of a committed Load maps to its new value every key of the
\* new state that the old state lacks or holds with another value (a value
\* of another type is another value), and holds no other key.
C27_DiffByValue ==
  [][(LoadStep /\ last'.committed) =>
       last'.changed =
         [k \in {x \in DOMAIN data' :
                   x \notin DOMAIN data \/ ~ValueEqual(data[x], heap, data'[x], heap')}
            |-> data'[k]]]_vars

(***************************************************************************)
(* SpecFlatten: a File source reads a document of nested maps and lists    *)
(* and the engine loads it.                                                *)
(***************************************************************************)
MaxList == 2

DocScalars == {StrV("a"), StrV("b"), IntV("1")}

\* the items of a list: scalars, a list, a map
DocItems == DocScalars \cup {ListV(<<StrV("a"), IntV("1")>>), DocV([k \in {"x"} |-> StrV("b")])}

DocLists == {ListV(q) : q \in SeqsUpTo(DocItems, MaxList)}

DocMaps ==
  {DocV([k \in {"x"} |-> v]) : v \in {StrV("a"), ListV(<<StrV("a"), StrV("b")>>),
                                        DocV([k \in {"y"} |-> IntV("1")])}}
  \cup {DocV([k \in {"x", "y"} |-> IF k = "x" THEN StrV("a") ELSE ListV(<<IntV("1")>>)])}

Documents ==
  {[k \in {"h"} |-> v] : v \in DocScalars \cup DocLists \cup DocMaps}
  \cup {[k \in {"h", "k"} |-> IF k = "h" THEN v ELSE StrV("b")] : v \in DocLists \cup DocMaps}

InitFlatten ==
  /\ sources = <<>>
  /\ data = EmptyMap
  /\ heap = HeapInit
  /\ files \in [Paths -> {[ok |-> TRUE, tree |-> d] : d \in Documents}]
  /\ hooks = NewHookManager
  /\ rules = [k \in {} |-> <<>>]
  /\ observers = <<>>
  /\ pending = <<>>
  /\ profiles = [k \in {} |-> EmptyMap]
  /\ active = ""
  /\ last = Ret("New", "")
  /\ loads = 0
  /\ adds = 0
  /\ NoWatch
  /\ NewCachedSource("counter", 0)
  /\ NewRetrySource(0, 0)

NextFlatten ==
  \/ (sources = <<>> /\ AddSource(FileWithPriority("f1", DefaultFilePriority)))
  \/ (sources # <<>> /\ last.op # "Load" /\ Load)

SpecFlatten == InitFlatten /\ [][NextFlatten]_vars

\* the values of a document with their paths: v at path p, the entries of a
\* nested map at p.key, the items of a list at p.0, p.1, ...
RECURSIVE Nodes(_, _)
Nodes(p, v) ==
  {[path |-> p, v |-> v]} \cup
  (IF v.t = "doc" THEN UNION {Nodes(joinKeys(p, k), v.ents[k]) : k \in DOMAIN v.ents}
   ELSE IF v.t = "list"
   THEN UNION {Nodes(p \o "." \o ToString(i - 1), v.items[i]) : i \in 1..Len(v.items)}
   ELSE {})

DocNodes(tree) == UNION {Nodes(k, tree[k]) : k \in DOMAIN tree}

\* the string forms of the items, joined by commas
RECURSIVE CommaJoined(_)
CommaJoined(items) ==
  IF items = <<>> THEN ""
  ELSE SprintAny(Head(items)) \o (IF Len(items) > 1 THEN "," \o CommaJoined(Tail(items)) ELSE "")

Flattened == last.op = "Load" /\ last.err = "" /\ Len(sources) = 1

\* C28: the state loaded from a document holds, for every list at path p,
\* under p the comma-joined string forms of its items and under p.0 .. p.n
\* what the items flatten to; for every nested map what its entries flatten
\* to under parent.child; every scalar under its path; and no other key.
C28_FlattenListsAndMaps ==
  Flattened =>
    LET ns == DocNodes(files["f1"].tree)
    IN /\ \A n \in ns :
            /\ n.v.t = "list" => /\ n.path \in DOMAIN data
                                 /\ data[n.path] = StrV(CommaJoined(n.v.items))
            /\ n.v.t \notin {"list", "doc"} => /\ n.path \in DOMAIN data
                                               /\ data[n.path] = n.v
       /\ DOMAIN data = {n.path : n \in {x \in ns : x.v.t # "doc"}}

\* {h: ["a", "b"], k: "b"} gives h = "a,b", h.0 = "a", h.1 = "b", k = "b"
C28_Witness ==
  /\ Flattened
  /\ files["f1"].tree = [k \in {"h", "k"} |->
                           IF k = "h" THEN ListV(<<StrV("a"), StrV("b")>>) ELSE StrV("b")]
  /\ data = [k \in {"h", "h.0", "h.1", "k"} |->
               IF k = "h" THEN StrV("a,b") ELSE IF k = "h.0" THEN StrV("a") ELSE StrV("b")]

\* {h: [{x: "b"}, ["a", 1]]} gives h = "map[x:b],[a 1]", h.0.x = "b",
\* h.1 = "a,1", h.1.0 = "a", h.1.1 = 1
C28_WitnessNested ==
  /\ Flattened
  /\ DOMAIN data = {"h", "h.0.x", "h.1", "h.1.0", "h.1.1"}
  /\ data["h"] = StrV("map[x:b],[a 1]")
  /\ data["h.1"] = StrV("a,1")
  /\ data["h.1.1"] = IntV("1")

(***************************************************************************)
(* part_001: the AES-GCM encryptor, the encryption processor and the       *)
(* EncryptionSource.  A string is the sequence of its characters, a byte a *)
(* number below the size of the alphabet.  The cipher is a small AEAD of   *)
(* the shape of GCM: Seal adds a key stream derived from key and nonce to  *)
(* the plaintext and appends a tag over key, nonce and ciphertext; Open    *)
(* checks the tag.  Base64 maps every byte to a character of its own       *)
(* alphabet and rejects any other character.                               *)
(***************************************************************************)
Charset == <<"a", "b", "E", ":">>
B64Chars == <<"A", "B", "C", "D">>
ByteCount == Len(Charset)

CharsV(cs) == [t |-> "str", p |-> "", cs |-> cs]
NilValue == [t |-> "nil", p |-> ""]

IndexIn(alphabet, c) == CHOOSE i \in 1..Len(alphabet) : alphabet[i] = c

\* []byte(value) and string(plaintext)
Bytes(cs) == [i \in 1..Len(cs) |-> IndexIn(Charset, cs[i]) - 1]
String(bs) == [i \in 1..Len(bs) |-> Charset[bs[i] + 1]]

\* base64.StdEncoding.EncodeToString and DecodeString
EncodeToString(bs) == [i \in 1..Len(bs) |-> B64Chars[bs[i] + 1]]
DecodeString(cs) ==
  IF \E i \in 1..Len(cs) : \A j \in 1..Len(B64Chars) : B64Chars[j] # cs[i]
  THEN [err |-> "decoding base64", data |-> <<>>]
  ELSE [err |-> "", data |-> [i \in 1..Len(cs) |-> IndexIn(B64Chars, cs[i]) - 1]]

\* NewAESEncryptor: the key of the cipher is a digest of the passphrase
NewAESEncryptor(passphrase) == [gcm |-> (Len(passphrase) + Bytes(passphrase)[1]) % ByteCount]

\* gcm.NonceSize() and the length of the tag, in bytes
NonceSize == 1
TagSize == 1

RECURSIVE SumOf(_)
SumOf(bs) == IF bs = <<>> THEN 0 ELSE Head(bs) + SumOf(Tail(bs))

Tag(key, nonce, ct) == (1 + key + nonce[1] + SumOf(ct) + Len(ct)) % ByteCount

\* gcm.Seal(dst, nonce, plaintext, nil): dst, the ciphertext, the tag
Seal(key, dst, nonce, pt) ==
  LET ct == [i \in 1..Len(pt) |-> (pt[i] + key + nonce[1] + i) % ByteCount]
  IN dst \o ct \o <<Tag(key, nonce, ct)>>

\* gcm.Open(nil, nonce, ciphertext, nil)
Open(key, nonce, sealed) ==
  IF Len(sealed) < TagSize THEN [err |-> "message authentication failed", pt |-> <<>>]
  ELSE LET ct == SubSeq(sealed, 1, Len(sealed) - TagSize)
       IN IF sealed[Len(sealed)] # Tag(key, nonce, ct)
          THEN [err |-> "message authentication failed", pt |-> <<>>]
          ELSE [err |-> "",
                pt |-> [i \in 1..Len(ct) |-> (ct[i] + 3 * ByteCount - key - nonce[1] - i) % ByteCount]]

\* AESEncryptor.Encrypt, with the nonce that rand.Reader gave
Encrypt(e, value, nonce) == EncodeToString(Seal(e.gcm, nonce, nonce, Bytes(value)))

\* a Decrypt that returns what the key stream gives without checking the tag
decryptUnchecked(e, encryptedValue) ==
  LET dec == DecodeString(encryptedValue)
  IN IF dec.err # "" THEN [err |-> dec.err, value |-> <<>>]
     ELSE IF Len(dec.data) < NonceSize + TagSize THEN [err |-> "ciphertext too short", value |-> <<>>]
     ELSE [err |-> "",
           value |-> String([i \in 1..(Len(dec.data) - NonceSize - TagSize) |->
                      (dec.data[NonceSize + i] + 3 * ByteCount - e.gcm - dec.data[1] - i) % ByteCount])]

\* AESEncryptor.Decrypt
Decrypt(e, encryptedValue) ==
  LET dec == DecodeString(encryptedValue)
  IN IF dec.err # "" THEN [err |-> dec.err, value |-> <<>>]
     ELSE IF Len(dec.data) < NonceSize THEN [err |-> "ciphertext too short", value |-> <<>>]
     ELSE LET opened == Open(e.gcm, SubSeq(dec.data, 1, NonceSize),
                             SubSeq(dec.data, NonceSize + 1, Len(dec.data)))
          IN IF opened.err # "" THEN [err |-> "decrypting ciphertext", value |-> <<>>]
             ELSE [err |-> "", value |-> String(opened.pt)]

\* strings.HasPrefix and strings.TrimPrefix
HasPrefix(cs, prefix) == Len(cs) >= Len(prefix) /\ SubSeq(cs, 1, Len(prefix)) = prefix
TrimPrefix(cs, prefix) == IF HasPrefix(cs, prefix) THEN SubSeq(cs, Len(prefix) + 1, Len(cs)) ELSE cs

\* NewEncryptionProcessor(encryptor, prefix)
Passphrase == <<"a", "b">>
OtherPassphrase == <<"b", "b">>
MarkerPrefix == <<"E", ":">>
NewEncryptionProcessor(encryptor, prefix) == [encryptor |-> encryptor, prefix |-> prefix]
Processor == NewEncryptionProcessor(NewAESEncryptor(Passphrase), MarkerPrefix)

\* EncryptionProcessor.processValue; of several failing entries of a map the
\* error of one is returned (the map is ranged over in no fixed order)
RECURSIVE processValue(_, _)
processValue(ep, v) ==
  IF v.t = "str"
  THEN IF HasPrefix(v.cs, ep.prefix)
       THEN LET r == Decrypt(ep.encryptor, TrimPrefix(v.cs, ep.prefix))
            IN [err |-> r.err, v |-> CharsV(r.value)]
       ELSE [err |-> "", v |-> v]
  ELSE IF v.t = "doc"
  THEN LET rs == [k \in DOMAIN v.ents |-> processValue(ep, v.ents[k])]
       IN IF \E k \in DOMAIN rs : rs[k].err # ""
          THEN [err |-> rs[CHOOSE k \in DOMAIN rs : rs[k].err # ""].err, v |-> NilValue]
          ELSE [err |-> "", v |-> DocV([k \in DOMAIN rs |-> rs[k].v])]
  ELSE IF v.t = "list"
  THEN LET rs == [i \in 1..Len(v.items) |-> processValue(ep, v.items[i])]
       IN IF \E i \in 1..Len(rs) : rs[i].err # ""
          THEN [err |-> rs[CHOOSE i \in 1..Len(rs) : rs[i].err # ""].err, v |-> NilValue]
          ELSE [err |-> "", v |-> ListV([i \in 1..Len(rs) |-> rs[i].v])]
  ELSE [err |-> "", v |-> v]

\* a Process that returns the entries it could process along with the error
processPartly(ep, d) ==
  LET rs == [k \in DOMAIN d |-> processValue(ep, d[k])]
  IN [err |-> IF \E k \in DOMAIN rs : rs[k].err # "" THEN "processing key" ELSE "",
      data |-> MapOf([k \in {x \in DOMAIN rs : rs[x].err = ""} |-> rs[k].v])]

\* EncryptionProcessor.Process
Process(ep, d) ==
  LET rs == [k \in DOMAIN d |-> processValue(ep, d[k])]
  IN IF \E k \in DOMAIN rs : rs[k].err # ""
     THEN [err |-> "processing key", data |-> NilMap]
     ELSE [err |-> "", data |-> MapOf([k \in DOMAIN rs |-> rs[k].v])]

\* EncryptionSource.Load of the first registered source
EncryptionSourceLoad ==
  /\ sources # <<>>
  /\ sources[1].kind = "encryption"
  /\ last.op # "EncryptionSource.Load"
  /\ LET r == SourceLoad(sources[1].source, files)
     IN last' = IF r.err # "" THEN [op |-> "EncryptionSource.Load", err |-> r.err, data |-> NilMap]
                ELSE [op |-> "EncryptionSource.Load"] @@ Process(Processor, r.data)
  /\ UNCHANGED <<sources, data, heap, files, hooks, rules, observers, pending, profiles, active,
                 loads, adds>>
  /\ UNCHANGED <<cacheVars, retryVars, watchVars, got, lockVars, builderVars>>

\* Encrypt(value) and Decrypt of what it returned, by encryptors of the
\* passphrases p1 and p2
EncryptDecrypt(value, nonce, p1, p2) ==
  /\ got = NoResult
  /\ got' = [op |-> "Decrypt", plain |-> value, same |-> p1 = p2,
             enc |-> Encrypt(NewAESEncryptor(p1), value, nonce),
             dec |-> Decrypt(NewAESEncryptor(p2), Encrypt(NewAESEncryptor(p1), value, nonce))]
  /\ UNCHANGED <<engineVars, cacheVars, retryVars, watchVars, lockVars, builderVars>>

(***************************************************************************)
(* SpecCrypt: strings are encrypted and decrypted, and an EncryptionSource *)
(* around a Memory source is loaded.                                       *)
(***************************************************************************)
MaxText == 2

Plaintexts == SeqsUpTo({Charset[i] : i \in 1..Len(Charset)}, MaxText)
Nonces == {<<b>> : b \in 0..(ByteCount - 1)}

\* the strings a source may hold: plain ones, encrypted ones behind the
\* marker, and marked ones that are no encryption under the passphrase
GoodStrings ==
  {CharsV(MarkerPrefix \o Encrypt(NewAESEncryptor(Passphrase), x, n)) :
     x \in {<<>>, <<"a", "b">>, <<"E", ":">>}, n \in {<<0>>, <<3>>}}
BadStrings ==
  {CharsV(MarkerPrefix \o Encrypt(NewAESEncryptor(OtherPassphrase), <<"a">>, <<0>>)),
   CharsV(MarkerPrefix \o <<"a">>),
   CharsV(MarkerPrefix),
   CharsV(MarkerPrefix \o <<"A">>),
   CharsV(MarkerPrefix \o <<"B", "A", "A">>)}
PlainValues == {CharsV(<<"a">>), CharsV(<<"E", "a">>), CharsV(<<>>), IntV("1")}

CryptValues == GoodStrings \cup BadStrings \cup PlainValues

CryptDocs ==
  {[k \in {"h"} |-> v] : v \in CryptValues}
  \cup {[k \in {"h"} |-> DocV([j \in {"x", "y"} |-> IF j = "x" THEN v ELSE CharsV(<<"a">>)])] :
          v \in CryptValues}
  \cup {[k \in {"h"} |-> ListV(<<CharsV(<<"b">>), v>>)] : v \in CryptValues}
  \cup {[k \in {"h", "k"} |-> IF k = "h" THEN v ELSE w] : v \in GoodStrings, w \in BadStrings \cup PlainValues}

InitCrypt ==
  /\ \E d \in CryptDocs :
       sources = <<[WithEncryption(MemoryWithPriority(d, DefaultMemoryPriority))
                      EXCEPT !.ord = 1, !.via = "AddSource"]>>
  /\ data = EmptyMap
  /\ heap = HeapInit
  /\ files = [p \in Paths |-> Gone]
  /\ hooks = NewHookManager
  /\ rules = [k \in {} |-> <<>>]
  /\ observers = <<>>
  /\ pending = <<>>
  /\ profiles = [k \in {} |-> EmptyMap]
  /\ active = ""
  /\ last = Ret("New", "")
  /\ loads = 0
  /\ adds = 1
  /\ NoWatch
  /\ NewCachedSource("counter", 0)
  /\ NewRetrySource(0, 0)

\* the round trips are tried beside one of the sources (they do not read it)
NextCrypt ==
  \/ EncryptionSourceLoad
  \/ \E value \in Plaintexts, nonce \in Nonces, p2 \in {Passphrase, OtherPassphrase} :
       last.op = "New" /\ sources[1].source.data = [k \in {"h"} |-> IntV("1")]
       /\ EncryptDecrypt(value, nonce, Passphrase, p2)

SpecCrypt == InitCrypt /\ [][NextCrypt]_vars

\* cs is an encryption, under the processor's passphrase, of some string
IsEncryption(cs) ==
  \E x \in Plaintexts, n \in Nonces : Encrypt(Processor.encryptor, x, n) = cs
PlainOf(cs) ==
  CHOOSE x \in Plaintexts : \E n \in Nonces : Encrypt(Processor.encryptor, x, n) = cs

Marked(v) == v.t = "str" /\ HasPrefix(v.cs, MarkerPrefix)

\* the strings inside a value
RECURSIVE StringsIn(_)
StringsIn(v) ==
  IF v.t = "str" THEN {v}
  ELSE IF v.t = "doc" THEN UNION {StringsIn(v.ents[k]) : k \in DOMAIN v.ents}
  ELSE IF v.t = "list" THEN UNION {StringsIn(v.items[i]) : i \in 1..Len(v.items)}
  ELSE {}

\* v with every marked string replaced by the string it encrypts
RECURSIVE Decrypted(_)
Decrypted(v) ==
  IF v.t = "str" THEN IF Marked(v) THEN CharsV(PlainOf(TrimPrefix(v.cs, MarkerPrefix))) ELSE v
  ELSE IF v.t = "doc" THEN DocV([k \in DOMAIN v.ents |-> Decrypted(v.ents[k])])
  ELSE IF v.t = "list" THEN ListV([i \in 1..Len(v.items) |-> Decrypted(v.items[i])])
  ELSE v

Undecryptable(d) ==
  \E k \in DOMAIN d : \E s \in StringsIn(d[k]) :
    Marked(s) /\ ~IsEncryption(TrimPrefix(s.cs, MarkerPrefix))

\* C29: Decrypt gives back the string that Encrypt was given, under the
\* same passphrase; the Load of the decryption decorator returns the data
\* of its source with every string that carries the marker replaced by the
\* string its remainder encrypts and every other value as it was; and if
\* some marked string does not decrypt it returns an error and no data.
C29_DecryptInvertsEncrypt ==
  /\ (got.op = "Decrypt" /\ got.same) => got.dec = [err |-> "", value |-> got.plain]
  /\ last.op = "EncryptionSource.Load" =>
       LET d == sources[1].source.data
       IN IF Undecryptable(d)
          THEN last.err # "" /\ last.data = NilMap
          ELSE /\ last.err = ""
               /\ last.data = MapOf([k \in DOMAIN d |-> Decrypted(d[k])])

\* a two-character string came back from Decrypt(Encrypt(x)), and the text
\* Encrypt returned differs from it
C29_Witness ==
  /\ got.op = "Decrypt" /\ got.same
  /\ got.plain = <<"E", "b">>
  /\ got.dec.value = <<"E", "b">>
  /\ got.enc # got.plain /\ Len(got.enc) = 4

\* a Load replaced an encrypted string inside a nested map and left the
\* plain string beside it as it was
C29_WitnessLoad ==
  /\ last.op = "EncryptionSource.Load" /\ last.err = ""
  /\ last.data.m["h"].t = "doc"
  /\ last.data.m["h"].ents["x"] = CharsV(<<"a", "b">>)
  /\ last.data.m["h"].ents["y"] = CharsV(<<"a">>)
  /\ sources[1].source.data["h"].ents["x"] # CharsV(<<"a", "b">>)

\* a Load of a good and a bad marked string returned an error and no data
C29_WitnessFailure ==
  /\ last.op = "EncryptionSource.Load" /\ last.err = "processing key" /\ last.data = NilMap
  /\ DOMAIN sources[1].source.data = {"h", "k"}
  /\ ~Undecryptable([k \in {"h"} |-> sources[1].source.data["h"]])

\* C30: with no Update in between, a Load of a registered Memory source
\* returns data equal in value to the map the source was built from, nested
\* maps included, whatever the engine has done with data returned before.
C30_MemoryLoadReturnsStored ==
  \A i \in 1..Len(sources) :
    sources[i].kind = "memory" =>
      TreeOf(SourceLoad(sources[i], files).data, heap) = TreeOf(sources[i].data, HeapInit)

(***************************************************************************)
(* builder.go: Bind.  A key is the sequence of its characters.  A type is  *)
(* its kind and, for a struct, its fields in the order of declaration      *)
(* (name, `config` tag, name part of the `json` tag, exported or not,      *)
(* type); a struct value is the sequence of the values of its fields.      *)
(***************************************************************************)
\* strings.Split(key, "."), cur being the segment read so far
RECURSIVE splitFrom(_, _)
splitFrom(cs, cur) ==
  IF cs = <<>> THEN <<cur>>
  ELSE IF Head(cs) = "." THEN <<cur>> \o splitFrom(Tail(cs), <<>>)
  ELSE splitFrom(Tail(cs), Append(cur, Head(cs)))

splitPath(key) == splitFrom(key, <<>>)

\* strings.EqualFold on the letters the model uses
ToLower(c) ==
  CASE c = "P" -> "p" [] c = "H" -> "h" [] c = "D" -> "d" [] c = "N" -> "n" [] c = "J" -> "j"
    [] OTHER -> c

EqualFold(a, b) == Len(a) = Len(b) /\ \A i \in 1..Len(a) : ToLower(a[i]) = ToLower(b[i])

\* a variant that compares the field name whatever the tags are
matchName(sf, key) == EqualFold(sf.name, key)

matchField(sf, key) ==
  IF sf.config # <<>> THEN EqualFold(sf.config, key)
  ELSE IF sf.json # <<>> /\ sf.json # <<"-">> THEN EqualFold(sf.json, key)
  ELSE EqualFold(sf.name, key)

\* findField: the index of the first exported field that matches, 0 for none
findField(fields, name) ==
  LET hits == {i \in 1..Len(fields) : fields[i].exported /\ matchField(fields[i], name)}
  IN IF hits = {} THEN 0 ELSE CHOOSE i \in hits : \A j \in hits : i <= j

\* strconv.ParseInt of a printed value
ParseInt(text) ==
  LET cs == Chars(text)
      ds == IF cs # <<>> /\ cs[1] \in {"-", "+"} THEN Tail(cs) ELSE cs
  IN ds # <<>> /\ \A i \in 1..Len(ds) : IsDigit(ds[i])

\* TypeConverterRegistry.Convert onto a settable field of type t holding cur
Convert(t, cur, raw) ==
  IF t.kind = "int"
  THEN IF raw.t = "int" THEN [err |-> "", v |-> raw]
       ELSE IF ParseInt(raw.p) THEN [err |-> "", v |-> IntV(raw.p)]
       ELSE [err |-> "invalid syntax", v |-> cur]
  ELSE IF t.kind = "string"
  THEN [err |-> "", v |-> StrV(raw.p)]
  ELSE [err |-> "cannot convert to struct", v |-> cur]

\* a setByPath that treats a path below a non-struct value as an unknown field
RECURSIVE setStrictly(_, _, _, _)
setStrictly(t, v, path, raw) ==
  IF path = <<>> THEN [err |-> "", v |-> v]
  ELSE IF t.kind # "struct" THEN [err |-> "unknown config field", v |-> v]
  ELSE LET i == findField(t.fields, path[1])
       IN IF i = 0 THEN [err |-> "unknown config field", v |-> v]
          ELSE LET r == IF Len(path) = 1 THEN Convert(t.fields[i].type, v[i], raw)
                        ELSE setStrictly(t.fields[i].type, v[i], Tail(path), raw)
               IN [err |-> r.err, v |-> [v EXCEPT ![i] = r.v]]

RECURSIVE setByPath(_, _, _, _)
setByPath(t, v, path, raw) ==
  IF path = <<>> THEN [err |-> "", v |-> v]
  ELSE IF t.kind # "struct" THEN [err |-> "", v |-> v]
  ELSE LET i == findField(t.fields, path[1])
       IN IF i = 0 THEN [err |-> "unknown config field", v |-> v]
          ELSE LET r == IF Len(path) = 1 THEN Convert(t.fields[i].type, v[i], raw)
                        ELSE setByPath(t.fields[i].type, v[i], Tail(path), raw)
               IN [err |-> r.err, v |-> [v EXCEPT ![i] = r.v]]

\* bindMapToStruct: the loop over the keys of d, ranged over in `order`
RECURSIVE bindMapToStruct(_, _, _, _)
bindMapToStruct(d, order, t, v) ==
  IF order = <<>> THEN [err |-> "", v |-> v]
  ELSE LET r == setByPath(t, v, splitPath(Head(order)), d[Head(order)])
       IN IF r.err # "" THEN r ELSE bindMapToStruct(d, Tail(order), t, r.v)

\* the orders in which a range over the keys ks may run
Orders(ks) ==
  {q \in [1..Cardinality(ks) -> ks] : \A i, j \in 1..Cardinality(ks) : q[i] = q[j] => i = j}

\* the destination: struct { P int; H string `config:"n"`;
\* D struct { H string } `json:"d"`; u int; J int `json:"-"` } and its values
\* before the Bind
IntT == [kind |-> "int", fields |-> <<>>]
StringT == [kind |-> "string", fields |-> <<>>]
Field(name, config, json, exported, type) ==
  [name |-> name, config |-> config, json |-> json, exported |-> exported, type |-> type]
InnerT == [kind |-> "struct", fields |-> <<Field(<<"H">>, <<>>, <<>>, TRUE, StringT)>>]
DstT ==
  [kind |-> "struct",
   fields |-> <<Field(<<"P">>, <<>>, <<>>, TRUE, IntT),
                Field(<<"H">>, <<"n">>, <<>>, TRUE, StringT),
                Field(<<"D">>, <<>>, <<"d">>, TRUE, InnerT),
                Field(<<"u">>, <<>>, <<>>, FALSE, IntT),
                Field(<<"J">>, <<>>, <<"-">>, TRUE, IntT)>>]
DstPrior == <<IntV("0"), StrV("old"), <<StrV("old")>>, IntV("0"), IntV("0")>>

\* Config.Bind(dst): cloneMap(c.data), then bindMapToStruct
Bind ==
  /\ got = NoResult
  /\ \E order \in Orders(DOMAIN data) :
       \E r \in {bindMapToStruct(cloneMap(data), order, DstT, DstPrior)} :
         got' = [op |-> "Bind", err |-> r.err, dst |-> r.v]
  /\ UNCHANGED <<engineVars, cacheVars, retryVars, watchVars, lockVars, builderVars>>

(***************************************************************************)
(* SpecBind: Bind on every state of at most MaxBindKeys of the keys below. *)
(***************************************************************************)
MaxBindKeys == 2

BindKeys ==
  {<<"p">>, <<"P">>, <<"n">>, <<"h">>, <<"u">>, <<"j">>, <<"x">>, <<"d">>,
   <<"d", ".", "h">>, <<"d", ".", "x">>, <<"p", ".", "x">>, <<"d", ".", "h", ".", "x">>}
BindValues == {IntV("12"), StrV("12"), StrV("s")}

InitBind ==
  /\ sources = <<>>
  /\ \E ks \in {x \in SUBSET BindKeys : Cardinality(x) <= MaxBindKeys} : data \in [ks -> BindValues]
  /\ heap = HeapInit
  /\ files = [p \in Paths |-> Gone]
  /\ hooks = NewHookManager
  /\ rules = [k \in {} |-> <<>>]
  /\ observers = <<>>
  /\ pending = <<>>
  /\ profiles = [k \in {} |-> EmptyMap]
  /\ active = ""
  /\ last = Ret("New", "")
  /\ loads = 0
  /\ adds = 0
  /\ NoWatch
  /\ NewCachedSource("counter", 0)
  /\ NewRetrySource(0, 0)

NextBind == Bind

SpecBind == InitBind /\ [][NextBind]_vars

\* what each key stands for in the destination: the place of a field, "below"
\* (the path goes on below a field that is no struct) or "unknown"
Meaning(key) ==
  CASE key \in {<<"p">>, <<"P">>} -> [is |-> "field", place |-> <<1>>]
    [] key = <<"n">> -> [is |-> "field", place |-> <<2>>]
    [] key = <<"d">> -> [is |-> "field", place |-> <<3>>]
    [] key = <<"d", ".", "h">> -> [is |-> "field", place |-> <<3, 1>>]
    [] key = <<"j">> -> [is |-> "field", place |-> <<5>>]
    [] key \in {<<"p", ".", "x">>, <<"d", ".", "h", ".", "x">>} -> [is |-> "below", place |-> <<>>]
    [] OTHER -> [is |-> "unknown", place |-> <<>>]

Leaves == {<<1>>, <<2>>, <<3, 1>>, <<4>>, <<5>>}
At2(v, place) == IF Len(place) = 1 THEN v[place[1]] ELSE v[place[1]][place[2]]

\* the value a leaf takes from a raw value, and the raw values it refuses
Converted(place, raw) == IF place \in {<<2>>, <<3, 1>>} THEN StrV(raw.p) ELSE IntV(raw.p)
Refused(key, raw) ==
  \/ Meaning(key).place = <<3>>
  \/ Meaning(key).place \in {<<1>>, <<5>>} /\ raw.p = "s"

\* C31: a key with a segment that names no field of the struct it meets
\* makes Bind fail with the unknown-field error; a key whose path goes on
\* below a field that is no struct causes neither an error nor an assignment;
\* a field that no key of the state names keeps its value, and the absence
\* of keys never makes Bind fail.
C31_BindWalksKeys ==
  got.op = "Bind" =>
    LET unknown == {k \in DOMAIN data : Meaning(k).is = "unknown"}
        refused == {k \in DOMAIN data : Refused(k, data[k])}
    IN /\ unknown # {} => got.err # ""
       /\ (unknown # {} /\ refused = {}) => got.err = "unknown config field"
       /\ (unknown = {} /\ refused = {}) => got.err = ""
       /\ \A place \in Leaves :
            LET named == {k \in DOMAIN data : Meaning(k).place = place}
            IN /\ named = {} => At2(got.dst, place) = At2(DstPrior, place)
               /\ (got.err = "" /\ named # {}) =>
                    \E k \in named : At2(got.dst, place) = Converted(place, data[k])

\* a Bind of {p.x: 12, d.h: s}: no error, D.H assigned, P as it was
C31_Witness ==
  /\ got.op = "Bind" /\ got.err = ""
  /\ DOMAIN data = {<<"p", ".", "x">>, <<"d", ".", "h">>}
  /\ got.dst[1] = IntV("0")
  /\ got.dst[3][1] = StrV("s")

\* a Bind of {p: 12, x: 12} failed with the unknown-field error after P was
\* assigned
C31_WitnessUnknown ==
  /\ got.op = "Bind" /\ got.err = "unknown config field"
  /\ DOMAIN data = {<<"p">>, <<"x">>}
  /\ got.dst[1] = IntV("12")

(***************************************************************************)
(* builder.go: the Builder.  Every Builder holds a pointer to a Config;    *)
(* the model has the one Config that NewBuilder made, and a Clone copies   *)
(* the pointer.  A source registered through a Builder records it in `via`.*)
(***************************************************************************)
MaxBuilderMiddleware == 1

\* Builder.WithMiddleware(m), WithCaching, WithRetry, WithTemplateProcessing,
\* WithEncryption: b.middleware = append(b.middleware, m)
BuilderWith(b, m) ==
  /\ builders[b].made
  /\ Len(builders[b].middleware) < MaxBuilderMiddleware
  /\ builders' = [builders EXCEPT ![b].middleware = Append(@, m)]
  /\ UNCHANGED <<engineVars, cacheVars, retryVars, watchVars, got, lockVars>>

\* Builder.AddSource(src), and AddMemory, AddFile, AddEnv that call it
BuilderAddSource(b, src) ==
  /\ builders[b].made
  /\ adds < MaxSources
  /\ LET mw == builders[b].middleware
         wrapped == IF Len(mw) > 0 THEN ChainMiddleware(mw, src) ELSE src
     IN sources' = sortSources(Append(sources, [wrapped EXCEPT !.ord = adds + 1, !.via = b]))
  /\ adds' = adds + 1
  /\ last' = Ret("Builder.AddSource", "")
  /\ UNCHANGED <<data, heap, files, hooks, rules, observers, pending, profiles, active, loads>>
  /\ UNCHANGED <<cacheVars, retryVars, watchVars, got, lockVars, builderVars>>

\* Builder.Clone: config: b.config, middleware: a copy of b.middleware
BuilderClone(b, c) ==
  /\ builders[b].made
  /\ ~builders[c].made
  /\ builders' = [builders EXCEPT ![c] = [made |-> TRUE, middleware |-> builders[b].middleware,
                                          from |-> b, at |-> adds]]
  /\ UNCHANGED <<engineVars, cacheVars, retryVars, watchVars, got, lockVars>>

\* Builder.Build: return b.config; the source list of the engine it returns
Build(b) == sources

(***************************************************************************)
(* SpecBuilder: callers enable middleware on Builders, add sources through *)
(* them and clone them.                                                    *)
(***************************************************************************)
InitBuilder == EngineWith({NoHooks}, <<>>, [k \in {} |-> EmptyMap])

NextBuilder ==
  \/ \E b \in BuilderIds, m \in {"WithCaching", "WithRetry"} : BuilderWith(b, m)
  \/ \E b \in BuilderIds, src \in {MemoryWithPriority(Flat1, DefaultMemoryPriority),
                                  FileWithPriority("f1", DefaultFilePriority)} :
       BuilderAddSource(b, src)
  \/ \E b \in BuilderIds, c \in BuilderIds : BuilderClone(b, c)

SpecBuilder == InitBuilder /\ [][NextBuilder]_vars

\* C32: every source registered through a Builder is wrapped by every
\* middleware enabled on that Builder, first enabled outermost, whether the
\* middleware was enabled before or after the source was added.
C32_MiddlewareOnAllSources ==
  \A i \in 1..Len(sources) :
    sources[i].via \in BuilderIds =>
      LET mw == builders[sources[i].via].middleware
      IN Layers(sources[i]) = [j \in 1..Len(mw) |-> KindOf(mw[j])]

\* the Builders that b was cloned from, directly or not
RECURSIVE Ancestors(_)
Ancestors(b) ==
  IF builders[b].from = "" THEN {} ELSE {builders[b].from} \cup Ancestors(builders[b].from)

\* C33: the engine a Builder builds holds the sources added through that
\* Builder, and those added through the Builders it descends from before it
\* was cloned; a source added through another clone, or through the original
\* after the Clone, is not in it.
C33_CloneIsIndependent ==
  \A b \in BuilderIds :
    builders[b].made =>
      \A i \in 1..Len(Build(b)) :
        LET src == Build(b)[i]
        IN src.via \in BuilderIds =>
             \/ src.via = b
             \/ src.via \in Ancestors(b) /\ src.ord <= builders[b].at

(***************************************************************************)
(* The calls one Config.Load makes, in the order it makes them: the        *)
(* OnPreLoad of the pre-load hooks, the Load of the sources, the           *)
(* OnPostLoad of the post-load hooks.  Each loop returns at the first      *)
(* error.  `seq` is the rank of registration of the callee, `arg` the map  *)
(* a post-load hook is handed.                                             *)
(***************************************************************************)
Call(phase, name, priority, seq, err, arg) ==
  [phase |-> phase, name |-> name, priority |-> priority, seq |-> seq, err |-> err, arg |-> arg]

Failed(cs) == cs # <<>> /\ cs[Len(cs)].err # ""

\* the loop of HookManager.ExecutePreLoad
RECURSIVE preLoadCalls(_, _, _)
preLoadCalls(hs, i, bad) ==
  IF i > Len(hs) THEN <<>>
  ELSE LET err == OnPreLoad(hs[i], bad)
       IN <<Call(1, hs[i].name, hs[i].priority, hs[i].reg, err, EmptyMap)>>
          \o (IF err # "" THEN <<>> ELSE preLoadCalls(hs, i + 1, bad))

\* the loop of Config.Load over c.sources
RECURSIVE sourceCalls(_, _, _)
sourceCalls(srcs, i, fs) ==
  IF i > Len(srcs) THEN <<>>
  ELSE LET err == SourceLoad(srcs[i], fs).err
       IN <<Call(2, Name(srcs[i]), Priority(srcs[i]), srcs[i].ord, err, EmptyMap)>>
          \o (IF err # "" THEN <<>> ELSE sourceCalls(srcs, i + 1, fs))

\* the loop of HookManager.ExecutePostLoad
RECURSIVE postLoadCalls(_, _, _, _)
postLoadCalls(hs, i, m, bad) ==
  IF i > Len(hs) THEN <<>>
  ELSE LET r == OnPostLoad(hs[i], m, bad)
       IN <<Call(3, hs[i].name, hs[i].priority, hs[i].reg, r.err, m)>>
          \o (IF r.err # "" THEN <<>> ELSE postLoadCalls(hs, i + 1, r.m, bad))

LoadCalls(srcs, bad) ==
  LET pre == preLoadCalls(hooks.preLoad, 1, bad)
      src == sourceCalls(srcs, 1, files)
      post == postLoadCalls(hooks.postLoad, 1, mergeFrom(srcs, 1, newMerged(data), heap, files).m, bad)
  IN IF Failed(pre) THEN pre
     ELSE IF Failed(src) THEN pre \o src
     ELSE pre \o src \o post

MaxLoggedLoads == 1

\* Config.Load, and the calls it made
LoadLogged ==
  /\ loads < MaxLoggedLoads
  /\ \E bad \in SUBSET Fallible :
       LET r == LoadOutcome(sources, bad)
       IN /\ data' = r.data
          /\ heap' = r.heap
          /\ pending' = pending \o r.spawned
          /\ last' = [op |-> "Load", err |-> r.err, changed |-> r.changed,
                      spawned |-> r.spawned, committed |-> r.committed]
          /\ got' = [op |-> "Load", calls |-> LoadCalls(sources, bad)]
  /\ loads' = loads + 1
  /\ UNCHANGED <<sources, files, hooks, rules, observers, profiles, active, adds>>
  /\ UNCHANGED <<cacheVars, retryVars, watchVars, lockVars, builderVars>>

\* the hooks registered so far
Registered ==
  {hooks.preLoad[i].name : i \in 1..Len(hooks.preLoad)}
  \cup {hooks.postLoad[i].name : i \in 1..Len(hooks.postLoad)}

MaxHooks == 3

\* Config.RegisterHook: c.hooks.Register(hook)
RegisterHook(h) ==
  /\ Cardinality(Registered) < MaxHooks
  /\ h.name \notin Registered
  /\ hooks' = Register(hooks, h @@ [reg |-> Cardinality(Registered) + 1])
  /\ last' = Ret("RegisterHook", "")
  /\ UNCHANGED <<sources, data, heap, files, rules, observers, pending, profiles, active, loads, adds>>
  /\ UNCHANGED <<cacheVars, retryVars, watchVars, got, lockVars, builderVars>>

(***************************************************************************)
(* SpecHooks: a caller registers hooks and sources in any order and loads; *)
(* two of the hooks share a priority.                                      *)
(***************************************************************************)
HookChoices ==
  {[NewGuardHook(5) EXCEPT !.name = "p"],
   [NewGuardHook(5) EXCEPT !.name = "q"],
   NewValidationHook,
   NewLoggingHook}

HookSourceChoices ==
  {MemoryWithPriority(Flat2, DefaultMemoryPriority),
   FileWithPriority("f1", DefaultFilePriority)}

InitHooks == EngineWith({NoHooks}, <<>>, [k \in {} |-> EmptyMap])

NextHooks ==
  \/ \E h \in HookChoices : RegisterHook(h)
  \/ \E src \in HookSourceChoices : AddSource(src)
  \/ LoadLogged

SpecHooks == InitHooks /\ [][NextHooks]_vars

\* the calls of one phase follow ascending priority, registration order
\* among equals; the phases follow each other
InOrder(cs) ==
  \A i, j \in 1..Len(cs) :
    i < j =>
      \/ cs[i].phase < cs[j].phase
      \/ /\ cs[i].phase = cs[j].phase
         /\ \/ cs[i].priority < cs[j].priority
            \/ cs[i].priority = cs[j].priority /\ cs[i].seq < cs[j].seq

\* C34: one Load calls all pre-load hooks in ascending priority
\* (registration order among equals), then every source in ascending
\* priority, then all post-load hooks in ascending priority, the first of
\* them on the map merged from all sources, and then replaces the state;
\* the first hook or source that fails is the last one called, and the state
\* is not replaced.
C34_LoadOrder ==
  [][LoadStep =>
       LET cs == got'.calls
       IN /\ InOrder(cs)
          /\ \A i \in 1..(Len(cs) - 1) : cs[i].err = ""
          /\ IF Failed(cs)
             THEN /\ last'.err # ""
                  /\ ~last'.committed
                  /\ data' = data
             ELSE /\ Len(cs) = Len(hooks.preLoad) + Len(sources) + Len(hooks.postLoad)
                  /\ \A i \in 1..Len(hooks.preLoad) : cs[i].name = hooks.preLoad[i].name
                  /\ \A i \in 1..Len(sources) :
                       cs[Len(hooks.preLoad) + i].seq = sources[i].ord
                  /\ \A i \in 1..Len(hooks.postLoad) :
                       cs[Len(hooks.preLoad) + Len(sources) + i].name = hooks.postLoad[i].name
                  /\ hooks.postLoad # <<>> =>
                       cs[Len(hooks.preLoad) + Len(sources) + 1].arg
                         = mergeFrom(sources, 1, EmptyMap, heap, files).m
                  /\ last'.committed
                  /\ last'.err = ""]_vars

\* a Load that called two pre-load hooks of one priority, registered in the
\* other order than their names, then two sources and a post-load hook, and
\* replaced the state
C34_Witness ==
  /\ got.op = "Load"
  /\ last.op = "Load" /\ last.committed
  /\ Len(got.calls) = 5
  /\ got.calls[1].name = "q" /\ got.calls[2].name = "p"
  /\ got.calls[3].phase = 2 /\ got.calls[4].phase = 2
  /\ got.calls[5].phase = 3

\* a Load whose second pre-load hook failed with a source and a post-load
\* hook registered: two calls
C34_WitnessFailure ==
  /\ got.op = "Load"
  /\ last.op = "Load" /\ last.err # ""
  /\ Len(got.calls) = 2
  /\ got.calls[2].phase = 1 /\ got.calls[2].err # ""
  /\ sources # <<>>
  /\ hooks.postLoad # <<>>

(***************************************************************************)
(* builder.go, part_003: every operation on Config.mu that Load and        *)
(* applyProfile perform, one step each.  sync.RWMutex has no owner: an     *)
(* Unlock releases the lock whoever took it, and an Unlock of a mutex that *)
(* is not locked is a fatal error of the runtime.                          *)
(***************************************************************************)
\* a variant of Load's second c.mu.Lock() that returns without the lock
returnUnlocked(m, g) == m

\* Load: c.mu.Lock() after the validation, on both of its paths
lockAgain(m, g) == [m EXCEPT !.writer = g]

\* sync.RWMutex.Unlock
Unlock(m) == [m EXCEPT !.writer = ""]

\* where a goroutine is after an Unlock: stopped, if the mutex was not locked
AfterUnlock(g, next) == IF mu.writer = "" THEN Goto(g, "fatal") ELSE next

\* Load: the hooks and the merge; on an error, return (the deferred Unlock
\* is the next step); else the commit and c.mu.Unlock()
LoadBody(g) ==
  /\ At(g, "loading")
  /\ \E bad \in SUBSET Fallible : \E r \in {LoadOutcome(sources, bad)} :
       /\ data' = r.data
       /\ heap' = r.heap
       /\ pending' = pending \o r.spawned
       /\ last' = [op |-> "Load", err |-> IF r.committed THEN "" ELSE r.err,
                   changed |-> r.changed, spawned |-> r.spawned, committed |-> r.committed]
       /\ IF r.committed
          THEN /\ mu' = Unlock(mu)
               /\ gpc' = AfterUnlock(g, Goto(g, "unlocked"))
          ELSE /\ mu' = mu
               /\ gpc' = [gpc EXCEPT ![g].pc = "deferred", ![g].err = r.err]
  /\ loads' = loads + 1
  /\ UNCHANGED <<sources, files, hooks, rules, observers, profiles, active, adds>>
  /\ UNCHANGED <<cacheVars, retryVars, watchVars, got, builderVars>>

\* Load: c.mu.Lock() and return, with the validation error or nil
LoadLockAgain(g) ==
  /\ At(g, "relock")
  /\ Free
  /\ mu' = lockAgain(mu, g)
  /\ gpc' = Goto(g, "deferred")
  /\ UNCHANGED <<engineVars, cacheVars, retryVars, watchVars, got, builderVars>>

\* Load: the deferred c.mu.Unlock(), and the return to the caller
LoadDeferredUnlock(g) ==
  /\ At(g, "deferred")
  /\ mu' = Unlock(mu)
  /\ gpc' = AfterUnlock(g, Return(g, gpc[g].err))
  /\ UNCHANGED <<engineVars, cacheVars, retryVars, watchVars, got, builderVars>>

\* applyProfile: pm.config.mu.Lock() after Load has returned, and return err
ApplyProfileLockAgain(g) ==
  /\ At(g, "applied")
  /\ Free
  /\ mu' = [mu EXCEPT !.writer = g]
  /\ gpc' = Goto(g, "applydeferred")
  /\ UNCHANGED <<engineVars, cacheVars, retryVars, watchVars, got, builderVars>>

\* applyProfile: the deferred pm.config.mu.Unlock()
ApplyProfileDeferredUnlock(g) ==
  /\ At(g, "applydeferred")
  /\ mu' = Unlock(mu)
  /\ gpc' = AfterUnlock(g, [gpc EXCEPT ![g] = Idle])
  /\ last' = Ret("SetActiveProfile", gpc[g].err)
  /\ UNCHANGED <<sources, data, heap, files, hooks, rules, observers, pending, profiles, active, loads, adds>>
  /\ UNCHANGED <<cacheVars, retryVars, watchVars, got, builderVars>>

(***************************************************************************)
(* SpecPairs: two goroutines call Load, Get and SetActiveProfile on an     *)
(* engine with a rule that fails and a pre-load hook that can fail.        *)
(***************************************************************************)
InitPairs ==
  EngineWith({[hooks |-> Register(NewHookManager, NewGuardHook(5)),
               rules |-> [k \in {"c"} |-> <<"required">>]]}, <<>>,
             AddProfileTo([k \in {} |-> EmptyMap], "P", ProfileP))

NextPairs ==
  \E g \in Goroutines :
    \/ (loads + Owed < MaxLoads /\ LoadLock(g))
    \/ (At(g, "callload") /\ LoadLock(g))
    \/ LoadBody(g)
    \/ LoadLenRules(g)
    \/ ValidateAllRLock(g)
    \/ ValidateAllCopy(g)
    \/ LoadLockAgain(g)
    \/ LoadDeferredUnlock(g)
    \/ (got.op = "" /\ GetRLock(g, "a"))
    \/ GetRead(g)
    \/ (loads + Owed < MaxLoads /\ ApplyProfileLock(g, "P"))
    \/ ApplyProfileSources(g)
    \/ ApplyProfileLockAgain(g)
    \/ ApplyProfileDeferredUnlock(g)

SpecPairs == InitPairs /\ [][NextPairs]_vars

\* the places of Load and applyProfile whose next step is an Unlock
BeforeUnlock == {"loading", "deferred", "profile", "applydeferred"}

\* C35: wherever Load or applyProfile is about to release the engine lock,
\* the goroutine that runs it holds the lock exclusively; no Unlock meets an
\* unlocked mutex; and a goroutine that has returned holds no lock.
C35_ReleasesAreHeld ==
  \A g \in Goroutines :
    /\ gpc[g].pc \in BeforeUnlock => mu.writer = g
    /\ gpc[g].pc = "validating" => g \in mu.readers
    /\ gpc[g].pc # "fatal"
    /\ gpc[g].pc = "idle" => Holds(g) = "none"

\* a Load called by applyProfile has failed its validation, has taken the
\* lock again and is about to run its deferred Unlock, while the other
\* goroutine waits to lock
C35_Witness ==
  \E g \in Goroutines : \E h \in Goroutines \ {g} :
    /\ At(g, "deferred")
    /\ gpc[g].from = "profile"
    /\ gpc[g].err = "validation failed"
    /\ mu.writer = g
    /\ gpc[h].pc \in {"relock", "applied", "callload"}

\* C36: once the context is cancelled, no watch loop starts a Load: a step
\* taken with the context cancelled is never a tick that reloads.
C36_NoLoadAfterCancel ==
  [][ctxDone => ~(WatchLoopTick /\ loads' = loads + 1)]_vars

\* the goroutines whose Load has replaced the state and has yet to take the
\* shared lock of its validation
Committed == {g \in Goroutines : gpc[g].pc \in {"unlocked", "validate"}}

\* C37: between the state replacement of a Load and its validation no other
\* operation writes the merged state or the rule set: while a goroutine is
\* between the two, a step of another goroutine leaves both as they are.
C37_NothingBetweenCommitAndValidation ==
  [][\A g \in Committed : gpc'[g] = gpc[g] => (data' = data /\ rules' = rules)]_vars

(***************************************************************************)
(* part_003, builder.go: a pre-load hook that reads the engine.  Load      *)
(* calls c.hooks.ExecutePreLoad(c) after c.mu.Lock(); the hook's           *)
(* OnPreLoad(c) calls c.Get, which starts with c.mu.RLock().  RLock waits  *)
(* for as long as a writer holds the mutex, whoever that is.               *)
(***************************************************************************)
\* the pre-load hooks that call Get
Readers == {i \in 1..Len(hooks.preLoad) : hooks.preLoad[i].kind = "reader"}

\* a caller calls Get(key)
CallGet(g, key) ==
  /\ At(g, "idle")
  /\ gpc' = [gpc EXCEPT ![g].pc = "callget", ![g].key = key]
  /\ UNCHANGED <<engineVars, cacheVars, retryVars, watchVars, got, mu, builderVars>>

\* ExecutePreLoad reaches the hook, and OnPreLoad calls c.Get(key)
HookCallsGet(g, key) ==
  /\ At(g, "loading")
  /\ Readers # {}
  /\ gpc[g].key = ""
  /\ gpc' = [gpc EXCEPT ![g].pc = "callget", ![g].key = key, ![g].from = "hook"]
  /\ UNCHANGED <<engineVars, cacheVars, retryVars, watchVars, got, mu, builderVars>>

\* Get: c.mu.RLock()
GetLock(g) ==
  /\ At(g, "callget")
  /\ mu.writer = ""
  /\ mu' = [mu EXCEPT !.readers = @ \cup {g}]
  /\ gpc' = Goto(g, "getting")
  /\ UNCHANGED <<engineVars, cacheVars, retryVars, watchVars, got, builderVars>>

\* Get: the read, the deferred c.mu.RUnlock(), and the return: to the
\* caller, or into the hook, which returns nil to ExecutePreLoad
GetReturn(g) ==
  /\ At(g, "getting")
  /\ mu' = [mu EXCEPT !.readers = @ \ {g}]
  /\ gpc' = IF gpc[g].from = "hook"
            THEN [gpc EXCEPT ![g] = [Idle EXCEPT !.pc = "loading", !.key = "hooked"]]
            ELSE [gpc EXCEPT ![g] = Idle]
  /\ got' = [Got("Get", gpc[g].key) EXCEPT
               !.text = IF gpc[g].key \in DOMAIN data THEN data[gpc[g].key].p ELSE ""]
  /\ UNCHANGED <<engineVars, cacheVars, retryVars, watchVars, builderVars>>

\* ExecutePreLoad has called every hook that reads the engine
HooksReturned(g) == Readers = {} \/ gpc[g].key = "hooked"

(***************************************************************************)
(* SpecHookGet: two goroutines call Load and Get on an engine that has, or *)
(* has not, a pre-load hook that calls Get.  A goroutine inside an         *)
(* operation keeps running whenever it can take a step.                    *)
(***************************************************************************)
InitHookGet ==
  EngineWith({NoHooks,
              [hooks |-> Register(NewHookManager, NewReadingHook(5)), rules |-> NoHooks.rules]},
             <<>>, [k \in {} |-> EmptyMap])

\* the steps of goroutine g inside Load or Get
InsideHookGet(g) ==
  \/ HookCallsGet(g, "a")
  \/ GetLock(g)
  \/ GetReturn(g)
  \/ (HooksReturned(g) /\ LoadBody(g))
  \/ LoadLenRules(g)
  \/ LoadLockAgain(g)
  \/ LoadDeferredUnlock(g)

NextHookGet ==
  \/ AddSource(MemoryWithPriority(Flat1, DefaultMemoryPriority))
  \/ \E g \in Goroutines :
       \/ (loads + Owed < MaxLoads /\ LoadLock(g))
       \/ (got.op = "" /\ CallGet(g, "a"))
       \/ InsideHookGet(g)

SpecHookGet ==
  InitHookGet /\ [][NextHookGet]_vars /\ \A g \in Goroutines : WF_vars(InsideHookGet(g))

\* C38: a Load whose hook calls a read operation of the engine completes:
\* every goroutine that has taken the lock in Load returns from it.
C38_LoadWithReadingHookReturns ==
  \A g \in Goroutines : (At(g, "loading") ~> At(g, "idle"))

(***************************************************************************)
(* builder.go: Bind next to Load.  Bind copies c.data under the read lock  *)
(* (cloneMap: the top level) and releases the lock; bindMapToStruct then   *)
(* walks the copy.  A value of the copy that is a map is the map the       *)
(* state holds, read when the walk reaches it.                             *)
(***************************************************************************)
\* a map as a reader sees it: the nested maps at their contents in heap h
Seen(m, h) == [k \in DOMAIN m |-> Content(m[k], h)]

\* Bind: c.mu.RLock(); data := cloneMap(c.data); c.mu.RUnlock()
BindClone ==
  /\ got = NoResult
  /\ got' = [op |-> "Bind.clone", data |-> cloneMap(data), before |-> Seen(data, heap),
             at |-> loads]
  /\ UNCHANGED <<engineVars, cacheVars, retryVars, watchVars, lockVars, builderVars>>

\* Bind: c.bindMapToStruct(data, dst), into a struct with a field for every
\* key: what the fields hold when Bind returns
BindWalk ==
  /\ got.op = "Bind.clone"
  /\ got' = [op |-> "Bind", dst |-> Seen(got.data, heap), before |-> got.before, at |-> got.at]
  /\ UNCHANGED <<engineVars, cacheVars, retryVars, watchVars, lockVars, builderVars>>

(***************************************************************************)
(* SpecSnap: one goroutine registers Memory sources and loads, another     *)
(* calls Bind once.                                                        *)
(***************************************************************************)
Mix1 == [k \in {"a", "b"} |-> IF k = "a" THEN MapV("o1") ELSE IntV("1")]
Mix2 == [k \in {"a", "b"} |-> IF k = "a" THEN MapV("o2") ELSE IntV("2")]

SnapSourceChoices ==
  {MemoryWithPriority(Mix1, DefaultMemoryPriority),
   MemoryWithPriority(Mix2, DefaultFilePriority),
   MemoryWithPriority(Flat1, DefaultMemoryPriority),
   MemoryWithPriority(Flat2, DefaultFilePriority)}

InitSnap == EngineWith({NoHooks}, <<>>, [k \in {} |-> EmptyMap])

NextSnap ==
  \/ \E src \in SnapSourceChoices : AddSource(src)
  \/ Load
  \/ BindClone
  \/ BindWalk

SpecSnap == InitSnap /\ [][NextSnap]_vars

\* C39: a Bind during which at most one Load ran hands out the complete
\* merged state as it was before that Load or the complete state the Load
\* committed, never a mixture of the two.
C39_ReadersSeeCompleteStates ==
  [][(got.op = "Bind.clone" /\ got'.op = "Bind" /\ loads - got.at <= 1) =>
       got'.dst \in {got.before, Seen(data, heap)}]_vars

(***************************************************************************)
(* builder.go: Config.AddSourceWithMiddleware, next to the Builder's       *)
(* method of the same name.                                                *)
(***************************************************************************)
\* Config.AddSourceWithMiddleware(src, middleware...); `last` keeps the
\* arguments
ConfigAddSourceWithMiddleware(src, middleware) ==
  /\ adds < MaxSources
  /\ \E wrapped \in {chainUp(middleware, 1, src)} :
       /\ sources' = sortSources(Append(sources, [wrapped EXCEPT !.ord = adds + 1,
                                                                !.via = "AddSource"]))
       /\ last' = [op |-> "Config.AddSourceWithMiddleware", err |-> "", src |-> src,
                   mw |-> middleware, added |-> wrapped]
  /\ adds' = adds + 1
  /\ UNCHANGED <<data, heap, files, hooks, rules, observers, pending, profiles, active, loads>>
  /\ UNCHANGED <<cacheVars, retryVars, watchVars, got, lockVars, builderVars>>

(***************************************************************************)
(* SpecTwoChains: a source is registered with a list of middleware through *)
(* the Builder or through the engine.                                      *)
(***************************************************************************)
NextTwoChains ==
  \E src \in ChainSourceChoices, mw \in SeqsUpTo(Middlewares, MaxChain) :
    /\ sources = <<>>
    /\ \/ BuilderAddSourceWithMiddleware(src, mw)
       \/ ConfigAddSourceWithMiddleware(src, mw)

SpecTwoChains == InitChain /\ [][NextTwoChains]_vars

\* C40: registered through the engine or through the Builder, a source with
\* the middleware m1, ..., mn is held inside the same nesting of decorators:
\* that of m1 outermost, that of mn around the source itself.
C40_SameNestingBothWays ==
  last.op \in {"AddSourceWithMiddleware", "Config.AddSourceWithMiddleware"} =>
    /\ Layers(sources[1]) = [i \in 1..Len(last.mw) |-> KindOf(last.mw[i])]
    /\ Len(last.mw) >= 1 => Innermost(sources[1]) = last.src
    /\ sources[1] = [ChainMiddleware(last.mw, last.src) EXCEPT !.ord = 1, !.via = "AddSource"]

====
